---- MODULE Spec2Model ----
(***************************************************************************)
(* Verification model of the session audio-relay pipeline of               *)
(* apps/test-socket: FixedSizeChunker, JitterBuffer, the upstream          *)
(* OpenAiRtcSessionImpl and the two gateways that hold the client          *)
(* sessions.  Each component has its own specification; the variables of   *)
(* the other components stay at their initial value.                       *)
(***************************************************************************)
EXTENDS Integers, Sequences, FiniteSets, TLC

VARIABLES
  ch_chunkSize,   \* FixedSizeChunker.chunkSize
  ch_buffer,      \* FixedSizeChunker.buffer (the accumulator)
  ch_frames,      \* frames pushed downstream, in order: [data, by]
  ch_written,     \* history: concatenation of every chunk given to _transform
  ch_writes,      \* history: number of _transform calls
  ch_ended,       \* _flush has run (the Transform stream has ended)
  ch_lastOp,      \* history: the last operation that ran
  jb_target,      \* JitterBuffer.targetLatencyMs
  jb_max,         \* JitterBuffer.maxLatencyMs
  jb_interval,    \* JitterBuffer.flushIntervalMs
  jb_queue,       \* JitterBuffer.queue: [id, receivedAt] (id stands for the data)
  jb_timer,       \* JitterBuffer.timer is set
  jb_nextTick,    \* time at which the interval timer fires next (0 when not set)
  jb_now,         \* Date.now()
  jb_events,      \* history: events emitted: [type, id, at, recv, by, steady]
  jb_nextId,      \* history: number of write calls so far + 1
  jb_steady,      \* history: queued frames written with the timer running, not stopped since
  jb_ctl,         \* history: number of start/stop/end calls
  jb_lastOp,      \* history: the last operation that ran
  us_opts,        \* OpenAiRtcSessionOptions: [maxRetries, baseRetryDelayMs]
  us,             \* OpenAiRtcSessionImpl, its handlers' sockets and its timers
  og,             \* OwnWebSocketGateway: one client, its pipelines and telemetry
  rg,             \* RealtimeGateway: the process and its client sessions
  hk,             \* OpenAIRealtimeSocketHandler: its options, its socket, what it sent
  sg              \* SocketioGateway with AudioRecordingService and SocketLiveAudioService

ch_vars == <<ch_chunkSize, ch_buffer, ch_frames, ch_written, ch_writes, ch_ended, ch_lastOp>>

jb_vars == <<jb_target, jb_max, jb_interval, jb_queue, jb_timer, jb_nextTick, jb_now,
             jb_events, jb_nextId, jb_steady, jb_ctl, jb_lastOp>>

us_vars == <<us_opts, us>>

gw_vars == <<og, rg>>

vars == <<ch_vars, jb_vars, us_vars, gw_vars, hk, sg>>

(***************************************************************************)
(* Bounds                                                                  *)
(***************************************************************************)
MaxWriteLen == 2    \* longest ordinary chunk given to _transform
MaxWrites   == 3    \* number of _transform calls explored
MaxFrames   == 2    \* number of JitterBuffer.write calls explored
MaxTime     == 5    \* last value of the clock explored
MaxCtl      == 2    \* number of start/stop/end calls explored
MaxHandlers == 2    \* number of upstream sockets one session may open
MaxInputs   == 2    \* number of owner calls and upstream messages of one session
MaxMsgs     == 3    \* number of upstream messages dispatched by one session
MaxSound    == 2    \* number of sound data messages of one gateway client
MaxArtifacts == 2   \* number of artifacts (PCM chunks, audio deltas, WebM chunks) per direction
MaxEvents   == 2    \* number of client messages and upstream events of RealtimeGateway

(***************************************************************************)
(* Program constants                                                       *)
(***************************************************************************)
DefaultMaxRetries       == 3
DefaultBaseRetryDelayMs == 500

(***************************************************************************)
(* Components that take no step in a specification                         *)
(***************************************************************************)
\* a chunker nothing is written to
ChIdle ==
  /\ ch_chunkSize = 1
  /\ ch_buffer = <<>>
  /\ ch_frames = <<>>
  /\ ch_written = <<>>
  /\ ch_writes = 0
  /\ ch_ended = FALSE
  /\ ch_lastOp = "new"

\* a buffer nothing is written to
JbIdle ==
  /\ jb_target = 0 /\ jb_max = 0 /\ jb_interval = 1
  /\ jb_queue = <<>> /\ jb_timer = FALSE /\ jb_nextTick = 0 /\ jb_now = 0
  /\ jb_events = <<>> /\ jb_nextId = 1 /\ jb_steady = {} /\ jb_ctl = 0
  /\ jb_lastOp = "new"

\* the fields of a new OpenAiRtcSessionImpl, with no socket and no timer yet
UsNew ==
  [closed |-> FALSE, retryCount |-> 0, retryTimer |-> 0, pendingAudio |-> <<>>,
   partialTranscript |-> <<>>, ready |-> FALSE, handler |-> 0,
   hs |-> <<>>,          \* the OpenAIRealtimeSocketHandlers created so far
   timers |-> {},        \* pending setTimeout callbacks: [id, delay, left]
   nextTimer |-> 1,
   chunks |-> 0,         \* history: number of sendAudioChunk calls
   inputs |-> 0,         \* history: owner calls and upstream messages so far
   sinceReady |-> 0,     \* history: reconnects scheduled since the last Ready
   epoch |-> 0,          \* history: number of transitions to Ready
   sched |-> {},         \* history: reconnects scheduled: [n, delay, epoch]
   errors |-> 0,         \* history: upstream errors emitted to the owner
   limitErrors |-> 0,    \* history: 'retry limit reached' errors emitted to the owner
   afterLimit |-> {},    \* history: what was done after such an error: "socket", "timer"
   unsent |-> {},        \* history: messages given to a socket that was not open
   replayed |-> {},      \* history: chunks taken out of pendingAudio by flushPendingAudio
   msgs |-> 0,           \* history: number of upstream messages given to handleMessage
   last |-> [h |-> 0,    \* history: the last such message, the handler that got it,
             msg |-> [form |-> "none", type |-> "", delta |-> <<>>, rid |-> 0],
             handlerEvents |-> <<>>,    \* what handler.events emitted for it
             sessionEvents |-> <<>>,    \* what session.events emitted for it
             wasAwaiting |-> FALSE,     \* awaitingResponse of the handler before it
             wasText |-> <<>>],         \* partialTranscript before it
   audioIn |-> <<>>,     \* history: audio deltas received: [base64, responseId]
   audioOut |-> <<>>]    \* history: 'tts.chunk' events emitted: [base64, responseId]

\* a session nobody uses
UsIdle ==
  /\ us_opts = [maxRetries |-> DefaultMaxRetries, baseRetryDelayMs |-> DefaultBaseRetryDelayMs]
  /\ us = UsNew

\* OwnWebSocketGateway before its client connects.  A telemetry entry is a
\* number from 1 (it stands for {sequence, receivedAt} or {sentAt, size}); the
\* three queues are "in" (pendingInputChunks of the gateway), "up"
\* (pendingInputChunks of the handler) and "ai" (pendingAIChunks)
OgNew ==
  [stage |-> "none",       \* handleConnection: "none", "connecting", "connected", "failed"
   registered |-> FALSE,   \* this.clients has the client
   ws |-> "none",          \* socket of openAIHandler: "none", "connecting", "open", "closed"
   codec |-> [in |-> "none", ai |-> "none"],  \* the two ffmpeg processes: "none", "running", "failed"
   jitterTimer |-> FALSE,  \* the tick timer of rtcToBrowser.jitterBuffer is set
   queue |-> [in |-> <<>>, up |-> <<>>, ai |-> <<>>],
   converter |-> <<>>,     \* chunks written to audioConverter (browserToRtc.input)
   reverse |-> <<>>,       \* buffers written to rtcToBrowser.input
   sent |-> <<>>,          \* chunks given to openAIHandler.sendAudioChunk
   toClient |-> <<>>,      \* what was written to wss
   arrived |-> <<>>,       \* history: sound data accepted from the client: [id, pcm]
   recorded |-> [in |-> <<>>, up |-> <<>>, ai |-> <<>>],  \* history: entries pushed
   popped |-> [in |-> <<>>, up |-> <<>>, ai |-> <<>>],    \* history: result of every shift, 0 for undefined
   artifacts |-> [in |-> 0, up |-> 0, ai |-> 0],          \* history: artifacts produced
   thrown |-> 0,           \* history: exceptions thrown by a handler
   disconnects |-> 0]      \* history: handleDisconnect calls

\* the clients of RealtimeGateway
RgClients == {"A", "B"}

\* a client RealtimeGateway has not seen yet
RgNoClient ==
  [stage |-> "none",       \* handleConnection: "none", "connecting", "ready", "failed"
   authorized |-> FALSE,   \* what isAuthorized(request) returned
   client |-> "none",      \* the client's socket: "none", "open", "closed"
   ws |-> "none",          \* socket of openAI: "none", "connecting", "open", "closing", "closed"
   session |-> FALSE,      \* this.sessions has the client
   listening |-> FALSE,    \* the listeners of handleConnection are registered
   out |-> <<>>,           \* messages sent to the client: [type, reason]
   sent |-> <<>>,          \* messages sent on the upstream socket
   received |-> 0,         \* history: client messages handled
   lastMsg |-> [json |-> FALSE, type |-> "", data |-> ""]]  \* history: the last of them

\* RealtimeGateway with no client
RgNew == [up |-> TRUE,     \* the process runs
          cl |-> [c \in RgClients |-> RgNoClient],
          steps |-> 0]     \* history: client messages and upstream events so far

\* the two gateways with no client
GwIdle ==
  /\ og = OgNew
  /\ rg = RgNew

\* RealtimeSessionOptions as a caller gives them: "undefined" (0 for a sample
\* rate) stands for an option that is left out
HkNoOptions ==
  [model |-> "undefined", voice |-> "undefined", instructions |-> "undefined",
   inputSampleRate |-> 0, outputSampleRate |-> 0]

DEFAULT_OPTIONS ==
  [model |-> "gpt-4o-realtime-preview", voice |-> "alloy", instructions |-> "undefined",
   inputSampleRate |-> 16000, outputSampleRate |-> 16000]

\* a ?? b, where none is what stands for undefined
Nullish(a, b, none) == IF a = none THEN b ELSE a

\* the constructor of the handler: every option that is left out takes its default
HkConstruct(opts) ==
  [options |-> [model |-> Nullish(opts.model, DEFAULT_OPTIONS.model, "undefined"),
                voice |-> Nullish(opts.voice, DEFAULT_OPTIONS.voice, "undefined"),
                instructions |-> Nullish(opts.instructions, DEFAULT_OPTIONS.instructions, "undefined"),
                inputSampleRate |-> Nullish(opts.inputSampleRate, DEFAULT_OPTIONS.inputSampleRate, 0),
                outputSampleRate |-> Nullish(opts.outputSampleRate, DEFAULT_OPTIONS.outputSampleRate, 0)],
   ws |-> "none",
   url |-> "none",
   awaitingResponse |-> FALSE,
   sent |-> <<>>]

HkNew == HkConstruct(HkNoOptions)

HkIdle == hk = HkNew

\* the socket.io clients; a client id is never used again after its disconnect
SgClients == {"a", "b"}

\* no session id, no chunk
SgNone == [client |-> "none", at |-> 0]

\* SocketioGateway after construction: no client, no session.  A recording
\* session is [clientId, status, chunks, size, got, done] (got: history of the
\* chunks that were accepted, done: history, the 'recording-completed' emitted
\* for it), a chunk [sequence, bytes]; a live session is
\* [id, clientId, isActive, chunkCount, totalBytes] with id [client, at]
SgNew ==
  [cl |-> [c \in SgClients |-> "none"],  \* "none", "connected", "disconnected"
   now |-> 0,                            \* Date.now()
   rec |-> <<>>,                         \* AudioRecordingService.activeSessions, by id 1, 2, ..
   writes |-> {},                        \* file writes awaited: [id, at, by, bytes, n]
   files |-> {},                         \* files written: [id, at]
   live |-> {},                          \* SocketLiveAudioService.activeSessions
   timers |-> {},                        \* pending 5 s cleanups: [id, due]
   n |-> 0,                              \* history: messages handled
   last |-> [op |-> "none", client |-> "none", rid |-> 0, lid |-> SgNone,
             sequence |-> 0, chunk |-> 0, pre |-> "none", replies |-> <<>>]]

SgIdle == sg = SgNew


(***************************************************************************)
(* Generic helpers                                                         *)
(***************************************************************************)
SeqsUpTo(S, n) == UNION {[1..k -> S] : k \in 0..n}

RECURSIVE Flatten(_)
Flatten(ss) == IF ss = <<>> THEN <<>> ELSE Head(ss) \o Flatten(Tail(ss))

(***************************************************************************)
(* FixedSizeChunker  (lib/audio/fixed-size-chunker.ts)                     *)
(***************************************************************************)
ByteVals   == {0, 1}
ChunkSizes == {1, 2, 3, 40}

\* the 100-byte write of the documented scenario (explored as the first write
\* of a chunker with chunkSize 40)
ScenarioWrite == [i \in 1..100 |-> i % 2]

WriteInputs == SeqsUpTo(ByteVals, MaxWriteLen) \cup {ScenarioWrite}

\* Mutant of TransformLoop: the loop test is > instead of >=
RECURSIVE TransformLoopStrict(_, _, _)
TransformLoopStrict(buf, size, out) ==
  IF Len(buf) > size
    THEN TransformLoopStrict(SubSeq(buf, size + 1, Len(buf)), size,
                             Append(out, SubSeq(buf, 1, size)))
    ELSE [buffer |-> buf, pushed |-> out]

\* Mutant of TransformLoop: the remainder starts one byte late
RECURSIVE TransformLoopSkip(_, _, _)
TransformLoopSkip(buf, size, out) ==
  IF Len(buf) >= size
    THEN TransformLoopSkip(SubSeq(buf, size + 2, Len(buf)), size,
                           Append(out, SubSeq(buf, 1, size)))
    ELSE [buffer |-> buf, pushed |-> out]

\* Mutant of TransformLoop: only one frame is cut per write
TransformLoopOnce(buf, size, out) ==
  IF Len(buf) >= size
    THEN [buffer |-> SubSeq(buf, size + 1, Len(buf)),
          pushed |-> Append(out, SubSeq(buf, 1, size))]
    ELSE [buffer |-> buf, pushed |-> out]

\* the while loop of _transform: cut frames of exactly size bytes off the front
RECURSIVE TransformLoop(_, _, _)
TransformLoop(buf, size, out) ==
  IF Len(buf) >= size
    THEN TransformLoop(SubSeq(buf, size + 1, Len(buf)), size,
                       Append(out, SubSeq(buf, 1, size)))
    ELSE [buffer |-> buf, pushed |-> out]

Tagged(frames, tag) == [i \in 1..Len(frames) |-> [data |-> frames[i], by |-> tag]]

ChInit ==
  /\ ch_chunkSize \in ChunkSizes
  /\ ch_buffer = <<>>
  /\ ch_frames = <<>>
  /\ ch_written = <<>>
  /\ ch_writes = 0
  /\ ch_ended = FALSE
  /\ ch_lastOp = "new"

\* the chunker shares no state with the other components
ChOthers == UNCHANGED <<jb_vars, us_vars, gw_vars, hk, sg>>

\* _transform(chunk)
ChTransform(chunk) ==
  /\ ~ch_ended
  /\ ch_writes < MaxWrites
  /\ (chunk = ScenarioWrite => ch_writes = 0 /\ ch_chunkSize = 40)
  /\ LET r == TransformLoop(ch_buffer \o chunk, ch_chunkSize, <<>>)
     IN /\ ch_buffer' = r.buffer
        /\ ch_frames' = ch_frames \o Tagged(r.pushed, "write")
  /\ ch_written' = ch_written \o chunk
  /\ ch_writes' = ch_writes + 1
  /\ ch_lastOp' = "write"
  /\ UNCHANGED <<ch_chunkSize, ch_ended>>
  /\ ChOthers

\* _flush()
ChFlush ==
  /\ ~ch_ended
  /\ IF Len(ch_buffer) > 0
       THEN /\ ch_frames' = Append(ch_frames, [data |-> ch_buffer, by |-> "flush"])
            /\ ch_buffer' = <<>>
       ELSE UNCHANGED <<ch_frames, ch_buffer>>
  /\ ch_ended' = TRUE
  /\ ch_lastOp' = "flush"
  /\ UNCHANGED <<ch_chunkSize, ch_written, ch_writes>>
  /\ ChOthers

ChWrite == \E chunk \in WriteInputs : ChTransform(chunk)

ChNext == ChWrite \/ ChFlush

\* a chunker alone
ChunkerInit == ChInit /\ JbIdle /\ UsIdle /\ GwIdle /\ HkIdle /\ SgIdle

SpecChunker == ChunkerInit /\ [][ChNext]_vars

ChFrameData == [i \in 1..Len(ch_frames) |-> ch_frames[i].data]
ChFlushFrames == {i \in 1..Len(ch_frames) : ch_frames[i].by = "flush"}

\* C1: once flush has run, the concatenation of all pushed frames equals the
\* concatenation of all written chunks; before that, frames plus the retained
\* accumulator equal it (no byte lost, duplicated or reordered).
ChunkerRoundTrip ==
  /\ Flatten(ChFrameData) \o ch_buffer = ch_written
  /\ ch_ended => Flatten(ChFrameData) = ch_written

ChunkerRoundTripWitness ==
  /\ ch_ended
  /\ Len(ch_frames) >= 2
  /\ ch_frames[Len(ch_frames)].by = "flush"
  /\ ch_writes >= 2

\* C2: every frame pushed by a write has exactly chunkSize bytes; flush pushes
\* at most one frame, of size s with 0 < s < chunkSize, and none when the
\* remainder is empty.
ChunkerSizing ==
  /\ \A i \in 1..Len(ch_frames) :
       ch_frames[i].by = "write" => Len(ch_frames[i].data) = ch_chunkSize
  /\ Cardinality(ChFlushFrames) <= 1
  /\ \A i \in ChFlushFrames :
       /\ i = Len(ch_frames)
       /\ 0 < Len(ch_frames[i].data)
       /\ Len(ch_frames[i].data) < ch_chunkSize
  /\ (ch_ended /\ Len(ch_written) % ch_chunkSize = 0) => ChFlushFrames = {}

ChunkerSizingWitness ==
  /\ ch_ended
  /\ ChFlushFrames # {}
  /\ \E i \in 1..Len(ch_frames) : ch_frames[i].by = "write"

\* C3: after every write the accumulator holds (total written) mod chunkSize
\* bytes and floor(total / chunkSize) frames have been pushed; the 100-byte
\* write with chunkSize 40 gives two 40-byte frames, 20 bytes retained, and
\* flush then pushes exactly one 20-byte frame.
ChunkerAccumulator ==
  /\ ch_lastOp = "write" =>
       /\ Len(ch_buffer) = Len(ch_written) % ch_chunkSize
       /\ Len(ch_buffer) < ch_chunkSize
       /\ Len(ch_frames) = Len(ch_written) \div ch_chunkSize
  /\ (ch_chunkSize = 40 /\ ch_written = ScenarioWrite /\ ch_lastOp = "write") =>
       /\ Len(ch_frames) = 2
       /\ Len(ch_frames[1].data) = 40 /\ Len(ch_frames[2].data) = 40
       /\ Len(ch_buffer) = 20
  /\ (ch_chunkSize = 40 /\ ch_written = ScenarioWrite /\ ch_lastOp = "flush") =>
       /\ Len(ch_frames) = 3
       /\ ch_frames[3].by = "flush"
       /\ Len(ch_frames[3].data) = 20
       /\ ch_buffer = <<>>

ChunkerAccumulatorWitness ==
  /\ ch_chunkSize = 40
  /\ ch_written = ScenarioWrite
  /\ ch_lastOp = "flush"
  /\ Len(ch_frames) = 3

(***************************************************************************)
(* JitterBuffer  (lib/audio/jitter-buffer.ts)                              *)
(*                                                                         *)
(* Time is Date.now() in whole milliseconds and never goes back.  The      *)
(* interval timer fires exactly every flushIntervalMs after start(); a     *)
(* write and a tick of the same millisecond may run in either order.       *)
(***************************************************************************)
TargetLatencies == {0, 2}
MaxLatencies    == {1, 3}
FlushIntervals  == {1, 2}

\* Mutant of FlushOut: the newest frame is released first
FlushOutNewestFirst(q, now, target, force) ==
  IF q # <<>> /\ (force \/ now - q[Len(q)].receivedAt >= target)
    THEN [emitted |-> <<q[Len(q)]>>, rest |-> SubSeq(q, 1, Len(q) - 1)]
    ELSE [emitted |-> <<>>, rest |-> q]

\* Mutant of FlushOut: the age test is <= instead of <
RECURSIVE FlushOutLate(_, _, _, _)
FlushOutLate(q, now, target, force) ==
  IF q = <<>> \/ (~force /\ now - Head(q).receivedAt <= target)
    THEN [emitted |-> <<>>, rest |-> q]
    ELSE LET r == FlushOutLate(Tail(q), now, target, force)
         IN [emitted |-> <<Head(q)>> \o r.emitted, rest |-> r.rest]

\* Mutant of FlushOut: the force flag is ignored
RECURSIVE FlushOutNoForce(_, _, _, _)
FlushOutNoForce(q, now, target, force) ==
  IF q = <<>> \/ now - Head(q).receivedAt < target
    THEN [emitted |-> <<>>, rest |-> q]
    ELSE LET r == FlushOutNoForce(Tail(q), now, target, force)
         IN [emitted |-> <<Head(q)>> \o r.emitted, rest |-> r.rest]

\* flush(force): shift and emit heads until one is younger than target
RECURSIVE FlushOut(_, _, _, _)
FlushOut(q, now, target, force) ==
  IF q = <<>> \/ (~force /\ now - Head(q).receivedAt < target)
    THEN [emitted |-> <<>>, rest |-> q]
    ELSE LET r == FlushOut(Tail(q), now, target, force)
         IN [emitted |-> <<Head(q)>> \o r.emitted, rest |-> r.rest]

\* Mutant of TrimOut: the age test is >= instead of >
RECURSIVE TrimOutEager(_, _, _)
TrimOutEager(q, now, max) ==
  IF q # <<>> /\ now - Head(q).receivedAt >= max
    THEN LET r == TrimOutEager(Tail(q), now, max)
         IN [dropped |-> <<Head(q)>> \o r.dropped, rest |-> r.rest]
    ELSE [dropped |-> <<>>, rest |-> q]

\* Mutant of TrimOut: the heads that are shifted out are not reported
RECURSIVE TrimOutUnreported(_, _, _)
TrimOutUnreported(q, now, max) ==
  IF q # <<>> /\ now - Head(q).receivedAt > max
    THEN TrimOutUnreported(Tail(q), now, max)
    ELSE [dropped |-> <<>>, rest |-> q]

\* trim(): shift and drop heads older than max
RECURSIVE TrimOut(_, _, _)
TrimOut(q, now, max) ==
  IF q # <<>> /\ now - Head(q).receivedAt > max
    THEN LET r == TrimOut(Tail(q), now, max)
         IN [dropped |-> <<Head(q)>> \o r.dropped, rest |-> r.rest]
    ELSE [dropped |-> <<>>, rest |-> q]

\* the events emitted for a run of frames
JbEmit(frames, type, by) ==
  [i \in 1..Len(frames) |->
     [type |-> type, id |-> frames[i].id, at |-> jb_now, recv |-> frames[i].receivedAt,
      by |-> by, steady |-> frames[i].id \in jb_steady]]

JbEndEvent == [type |-> "end", id |-> 0, at |-> jb_now, recv |-> jb_now,
               by |-> "end", steady |-> FALSE]

JbInit ==
  /\ jb_target \in TargetLatencies
  /\ jb_max \in MaxLatencies
  /\ jb_interval \in FlushIntervals
  /\ jb_queue = <<>> /\ jb_timer = FALSE /\ jb_nextTick = 0 /\ jb_now = 0
  /\ jb_events = <<>> /\ jb_nextId = 1 /\ jb_steady = {} /\ jb_ctl = 0
  /\ jb_lastOp = "new"

\* the jitter buffer shares no state with the other components
JbOthers == UNCHANGED <<ch_vars, us_vars, gw_vars, hk, sg>>

JbConfig == <<jb_target, jb_max, jb_interval>>

\* start()
JbStart ==
  /\ jb_ctl < MaxCtl
  /\ IF jb_timer
       THEN UNCHANGED <<jb_timer, jb_nextTick>>
       ELSE jb_timer' = TRUE /\ jb_nextTick' = jb_now + jb_interval
  /\ jb_ctl' = jb_ctl + 1
  /\ jb_lastOp' = "start"
  /\ UNCHANGED <<JbConfig, jb_queue, jb_now, jb_events, jb_nextId, jb_steady>>
  /\ JbOthers

\* stop()
JbStop ==
  /\ jb_ctl < MaxCtl
  /\ jb_timer' = FALSE
  /\ jb_nextTick' = 0
  /\ jb_steady' = {}
  /\ jb_ctl' = jb_ctl + 1
  /\ jb_lastOp' = "stop"
  /\ UNCHANGED <<JbConfig, jb_queue, jb_now, jb_events, jb_nextId>>
  /\ JbOthers

\* write(data): push, then trim()
JbWrite ==
  /\ jb_nextId <= MaxFrames
  /\ LET pushed == Append(jb_queue, [id |-> jb_nextId, receivedAt |-> jb_now])
         r == TrimOut(pushed, jb_now, jb_max)
     IN /\ jb_queue' = r.rest
        /\ jb_events' = jb_events \o JbEmit(r.dropped, "drop", "write")
  /\ jb_steady' = IF jb_timer THEN jb_steady \cup {jb_nextId} ELSE jb_steady
  /\ jb_nextId' = jb_nextId + 1
  /\ jb_lastOp' = "write"
  /\ UNCHANGED <<JbConfig, jb_timer, jb_nextTick, jb_now, jb_ctl>>
  /\ JbOthers

\* Mutant of JbTick: the timer fires every second interval only
JbTickSlow ==
  /\ jb_timer
  /\ jb_now = jb_nextTick
  /\ LET r == FlushOut(jb_queue, jb_now, jb_target, FALSE)
     IN /\ jb_queue' = r.rest
        /\ jb_events' = jb_events \o JbEmit(r.emitted, "data", "tick")
  /\ jb_nextTick' = jb_nextTick + 2 * jb_interval
  /\ jb_lastOp' = "tick"
  /\ UNCHANGED <<JbConfig, jb_timer, jb_now, jb_nextId, jb_steady, jb_ctl>>
  /\ JbOthers

\* the setInterval callback: flush()
JbTick ==
  /\ jb_timer
  /\ jb_now = jb_nextTick
  /\ LET r == FlushOut(jb_queue, jb_now, jb_target, FALSE)
     IN /\ jb_queue' = r.rest
        /\ jb_events' = jb_events \o JbEmit(r.emitted, "data", "tick")
  /\ jb_nextTick' = jb_nextTick + jb_interval
  /\ jb_lastOp' = "tick"
  /\ UNCHANGED <<JbConfig, jb_timer, jb_now, jb_nextId, jb_steady, jb_ctl>>
  /\ JbOthers

\* end(): flush(true), stop(), emit('end')
JbEnd ==
  /\ jb_ctl < MaxCtl
  /\ LET r == FlushOut(jb_queue, jb_now, jb_target, TRUE)
     IN /\ jb_queue' = r.rest
        /\ jb_events' = (jb_events \o JbEmit(r.emitted, "data", "end")) \o <<JbEndEvent>>
  /\ jb_timer' = FALSE
  /\ jb_nextTick' = 0
  /\ jb_steady' = {}
  /\ jb_ctl' = jb_ctl + 1
  /\ jb_lastOp' = "end"
  /\ UNCHANGED <<JbConfig, jb_now, jb_nextId>>
  /\ JbOthers

\* one millisecond passes; a due tick runs first
JbAdvance ==
  /\ jb_now < MaxTime
  /\ ~(jb_timer /\ jb_nextTick = jb_now)
  /\ jb_now' = jb_now + 1
  /\ jb_lastOp' = "advance"
  /\ UNCHANGED <<JbConfig, jb_queue, jb_timer, jb_nextTick, jb_events, jb_nextId,
                 jb_steady, jb_ctl>>
  /\ JbOthers

JbNext == JbStart \/ JbStop \/ JbWrite \/ JbTick \/ JbEnd \/ JbAdvance

\* a jitter buffer alone
JitterInit == JbInit /\ ChIdle /\ UsIdle /\ GwIdle /\ HkIdle /\ SgIdle

SpecJitter == JitterInit /\ [][JbNext]_vars

JbOf(type) == SelectSeq(jb_events, LAMBDA e : e.type = type)
JbIds(evs) == [i \in 1..Len(evs) |-> evs[i].id]
JbKeys(evs) == [i \in 1..Len(evs) |-> <<evs[i].type, evs[i].id>>]

\* C4: the frames emitted as 'data' are a subsequence of the writes in the same
\* order: ids strictly increase along the data events (no reordering, no
\* duplication) and every id is that of one written frame (no merging).
JitterOrdering ==
  LET ids == JbIds(JbOf("data"))
  IN /\ \A i, j \in 1..Len(ids) : i < j => ids[i] < ids[j]
     /\ \A i \in 1..Len(ids) : ids[i] \in 1..(jb_nextId - 1)

JitterOrderingWitness ==
  /\ Len(JbOf("data")) >= 2
  /\ \E i \in 1..Len(jb_events) : jb_events[i].type = "data" /\ jb_events[i].by = "tick"

\* the frames the latency bound is about: emitted by a tick, written while the
\* timer was running and the timer not stopped before the emission
JbSteadyTicked == {i \in 1..Len(jb_events) :
                     /\ jb_events[i].type = "data"
                     /\ jb_events[i].by = "tick"
                     /\ jb_events[i].steady}
JbAge(e) == e.at - e.recv

\* C5 (as stated): with the timer running, a frame written at t and not dropped
\* is emitted at a tick T with t + target <= T < t + target + flushInterval.
JitterLatencyStrict ==
  \A i \in JbSteadyTicked :
    /\ jb_target <= JbAge(jb_events[i])
    /\ JbAge(jb_events[i]) < jb_target + jb_interval

\* C5 (amended): with the timer running, a frame written at t and not dropped
\* is emitted at a tick T with t + target <= T <= t + target + flushInterval,
\* and T < t + target + flushInterval whenever targetLatencyMs > 0.
JitterLatencyBound ==
  \A i \in JbSteadyTicked :
    /\ jb_target <= JbAge(jb_events[i])
    /\ JbAge(jb_events[i]) <= jb_target + jb_interval
    /\ jb_target > 0 => JbAge(jb_events[i]) < jb_target + jb_interval

JitterLatencyBoundWitness ==
  \E i \in JbSteadyTicked :
    /\ jb_target > 0
    /\ JbAge(jb_events[i]) > jb_target
    /\ \E j \in JbSteadyTicked : JbAge(jb_events[j]) = jb_target

\* C6: a 'drop' is emitted for a frame only by the trim of a write at which
\* its age exceeds maxLatencyMs; after the trim of a write no queued frame is
\* older than maxLatencyMs; no frame is both dropped and emitted as 'data'.
JitterDropBound ==
  /\ \A i \in 1..Len(jb_events) :
       jb_events[i].type = "drop" =>
         jb_events[i].by = "write" /\ JbAge(jb_events[i]) > jb_max
  /\ jb_lastOp = "write" =>
       \A i \in 1..Len(jb_queue) : jb_now - jb_queue[i].receivedAt <= jb_max
  /\ \A i, j \in 1..Len(jb_events) :
       (jb_events[i].type = "drop" /\ jb_events[j].type = "data") =>
         jb_events[i].id # jb_events[j].id

JitterDropBoundWitness ==
  /\ Len(JbOf("drop")) >= 1
  /\ Len(JbOf("data")) >= 1

\* C7: a step of end() releases every queued frame as 'data' in queue order
\* whatever its age, then emits one 'end'; it leaves the queue empty and no
\* timer set.
JitterEnd ==
  [][jb_lastOp' = "end" =>
       /\ jb_queue' = <<>>
       /\ jb_timer' = FALSE
       /\ JbKeys(jb_events') =
            (JbKeys(jb_events) \o [i \in 1..Len(jb_queue) |-> <<"data", jb_queue[i].id>>])
              \o << <<"end", 0>> >>]_vars

JitterEndWitness ==
  /\ jb_lastOp = "end"
  /\ jb_queue = <<>>
  /\ ~jb_timer
  /\ Len(jb_events) >= 3
  /\ jb_events[Len(jb_events)].type = "end"
  /\ \A k \in 1..2 :
       LET e == jb_events[Len(jb_events) - k]
       IN e.type = "data" /\ e.by = "end" /\ JbAge(e) < jb_target

(***************************************************************************)
(* OpenAiRtcSessionImpl  (services/openai-rtc.service.ts) over              *)
(* OpenAIRealtimeSocketHandler  (app/helper/OpenAISocketHandler.ts)        *)
(*                                                                         *)
(* A handler's socket is "connecting", "aborting" (closed before it        *)
(* opened: its 'error' and 'close' are still to come), "open", "closing"   *)
(* (its 'close' is still to come) or "closed".  A socket that fails to     *)
(* open emits 'error' and then 'close' in one turn of the event loop; the  *)
(* rejected connect() continues right after it.  Pending timers run in the *)
(* order of their due times: left is the time a timer still has to wait.   *)
(*                                                                         *)
(* SpecUpstream runs every operation of the session, SpecSession all but   *)
(* commitAudio and requestResponse, SpecDispatch the upstream messages on  *)
(* sockets that stay open.                                                 *)
(***************************************************************************)
UsOptions == {[maxRetries |-> DefaultMaxRetries, baseRetryDelayMs |-> DefaultBaseRetryDelayMs],
              [maxRetries |-> 1, baseRetryDelayMs |-> 250]}

RECURSIVE Pow2(_)
Pow2(n) == IF n = 0 THEN 1 ELSE 2 * Pow2(n - 1)

\* history: something done once a 'retry limit reached' error has been emitted
UsAfterLimit(s, what) ==
  IF s.limitErrors > 0 THEN [s EXCEPT !.afterLimit = @ \cup {what}] ELSE s

UsMsg(type, chunk) == [type |-> type, chunk |-> chunk]

\* Mutant of ReconnectDelay: the delay grows linearly
ReconnectDelayLinear(base, retryCount) == base * (retryCount + 1)

\* scheduleReconnect: (baseRetryDelayMs ?? 500) * Math.pow(2, retryCount)
ReconnectDelay(base, retryCount) == base * Pow2(retryCount)

\* Mutant of RetryCountOnReady: the counter is kept
RetryCountKept(retryCount) == retryCount

\* connect(): this.retryCount = 0 once connectToAudioStream has resolved
RetryCountOnReady(retryCount) == 0

\* ws.send(data): sent on an open socket, discarded on a closing or closed one
WsSend(s, h, msg) ==
  IF h = 0 THEN s
  ELSE IF s.hs[h].ws = "open"
    THEN [s EXCEPT !.hs[h].sent = Append(@, msg)]
    ELSE [s EXCEPT !.unsent = @ \cup {[h |-> h, type |-> msg.type, chunk |-> msg.chunk]}]

\* OpenAIRealtimeSocketHandler.close(): ws.close()
HandlerClose(s, h) ==
  IF h = 0 THEN s
  ELSE [s EXCEPT !.hs[h].ws = CASE @ = "connecting" -> "aborting"
                                [] @ = "open" -> "closing"
                                [] OTHER -> @]

\* clearTimeout(this.retryTimer); this.retryTimer = undefined
ClearRetryTimer(s) ==
  [s EXCEPT !.timers = {t \in @ : t.id # s.retryTimer}, !.retryTimer = 0]

\* scheduleReconnect(reason)
ScheduleReconnect(s, reason) ==
  IF s.closed THEN s
  ELSE IF s.retryCount >= us_opts.maxRetries
    THEN [s EXCEPT !.limitErrors = @ + 1]
    ELSE LET delay == ReconnectDelay(us_opts.baseRetryDelayMs, s.retryCount)
         IN [UsAfterLimit(s, "timer") EXCEPT
               !.retryCount = @ + 1,
               !.timers = @ \cup {[id |-> s.nextTimer, delay |-> delay, left |-> delay]},
               !.retryTimer = s.nextTimer,
               !.nextTimer = @ + 1,
               !.sinceReady = @ + 1,
               !.sched = @ \cup {[n |-> s.sinceReady + 1, delay |-> delay, epoch |-> s.epoch]}]

\* handler.events.on('error'): surface the error, then scheduleReconnect
OnHandlerError(s) ==
  ScheduleReconnect([s EXCEPT !.errors = @ + 1], "error_event")

\* handler.events.on('close')
OnHandlerClose(s) ==
  IF ~s.closed THEN ScheduleReconnect(s, "socket_closed") ELSE s

\* OpenAIRealtimeSocketHandler.sendAudioChunk(buffer): one telemetry entry
\* {sentAt, size} (the chunk stands for it), then ws.send of the append message
HandlerSendAudioChunk(s, h, c) ==
  WsSend([s EXCEPT !.hs[h].pendingInputChunks = Append(@, c)], h,
         UsMsg("input_audio_buffer.append", c))

\* OpenAIRealtimeSocketHandler.commitAudio()
HandlerCommitAudio(s, h) == WsSend(s, h, UsMsg("input_audio_buffer.commit", 0))

\* OpenAIRealtimeSocketHandler.requestResponse(instructions)
HandlerRequestResponse(s, h) ==
  WsSend([s EXCEPT !.hs[h].awaitingResponse = TRUE], h, UsMsg("response.create", 0))

\* Mutant of SendAll: the queued chunks are sent newest first
RECURSIVE SendAllNewestFirst(_, _, _)
SendAllNewestFirst(s, h, chunks) ==
  IF chunks = <<>> THEN s
  ELSE SendAllNewestFirst(HandlerSendAudioChunk(s, h, chunks[Len(chunks)]), h,
                          SubSeq(chunks, 1, Len(chunks) - 1))

\* queued.forEach((chunk) => this.handler?.sendAudioChunk(chunk))
RECURSIVE SendAll(_, _, _)
SendAll(s, h, chunks) ==
  IF chunks = <<>> THEN s
  ELSE SendAll(HandlerSendAudioChunk(s, h, Head(chunks)), h, Tail(chunks))

\* flushPendingAudio()
FlushPendingAudio(s) ==
  IF s.handler = 0 \/ ~s.ready \/ s.pendingAudio = <<>> THEN s
  ELSE SendAll([s EXCEPT !.pendingAudio = <<>>,
                         !.replayed = @ \cup {s.pendingAudio[i] : i \in 1..Len(s.pendingAudio)}],
               s.handler, s.pendingAudio)

\* connect() up to its await: a new handler whose socket is connecting
Connect(s) ==
  IF s.closed THEN s
  ELSE LET s1 == HandlerClose([ClearRetryTimer(s) EXCEPT !.ready = FALSE], s.handler)
           h == Len(s.hs) + 1
       IN [UsAfterLimit(s1, "socket") EXCEPT
             !.hs = Append(@, [ws |-> "connecting", awaiting |-> TRUE, sent |-> <<>>,
                                   awaitingResponse |-> FALSE,
                                   pendingInputChunks |-> <<>>]),
             !.handler = h]

\* connect() after its await resolved
ConnectResolved(s, h) ==
  FlushPendingAudio([s EXCEPT !.retryCount = RetryCountOnReady(@),
                              !.ready = TRUE,
                              !.sinceReady = 0,
                              !.epoch = @ + 1])

\* connect() after its await rejected
ConnectRejected(s) == ScheduleReconnect(s, "connect_failed")

UsInit ==
  /\ us_opts \in UsOptions
  /\ us = UsNew

\* the session shares no state with the other components
UsOthers == UNCHANGED <<ch_vars, jb_vars, us_opts, gw_vars, hk, sg>>

UsHandlers == 1..Len(us.hs)

\* the owner's first connect()
UsOwnerConnect ==
  /\ us.hs = <<>>
  /\ ~us.closed
  /\ us' = Connect(us)
  /\ UsOthers

\* Mutant of UsWsOpen: connect() resumes before handleOpen has run
UsWsOpenResolveFirst(h) ==
  /\ us.hs[h].ws = "connecting"
  /\ LET s1 == [us EXCEPT !.hs[h].ws = "open"]
         s2 == IF s1.hs[h].awaiting
                 THEN ConnectResolved([s1 EXCEPT !.hs[h].awaiting = FALSE], h)
                 ELSE s1
     IN us' = WsSend(s2, h, UsMsg("session.update", 0))
  /\ UsOthers

\* the socket of h opens: handleOpen sends session.update, connect() resumes
UsWsOpen(h) ==
  /\ us.hs[h].ws = "connecting"
  /\ LET s1 == [us EXCEPT !.hs[h].ws = "open"]
         s2 == WsSend(s1, h, UsMsg("session.update", 0))
     IN us' = IF s2.hs[h].awaiting
                THEN ConnectResolved([s2 EXCEPT !.hs[h].awaiting = FALSE], h)
                ELSE s2
  /\ UsOthers

\* the socket of h fails before it opened: 'error', 'close', then the catch
UsWsConnectFail(h) ==
  /\ us.hs[h].ws \in {"connecting", "aborting"}
  /\ LET s1 == OnHandlerError([us EXCEPT !.hs[h].ws = "closed"])
         s2 == OnHandlerClose(s1)
     IN us' = IF s2.hs[h].awaiting
                THEN ConnectRejected([s2 EXCEPT !.hs[h].awaiting = FALSE])
                ELSE s2
  /\ UsOthers

\* an open socket reports an error; its 'close' follows later
UsWsError(h) ==
  /\ us.hs[h].ws = "open"
  /\ us' = OnHandlerError([us EXCEPT !.hs[h].ws = "closing"])
  /\ UsOthers

\* the 'close' of a socket that was open
UsWsClose(h) ==
  /\ us.hs[h].ws \in {"open", "closing"}
  /\ us' = OnHandlerClose([us EXCEPT !.hs[h].ws = "closed"])
  /\ UsOthers

\* an upstream message of type 'error', or one that does not parse
UsUpstreamError(h) ==
  /\ us.hs[h].ws = "open"
  /\ us.inputs < MaxInputs
  /\ us' = OnHandlerError([us EXCEPT !.inputs = @ + 1])
  /\ UsOthers

\* a reconnect timer runs: void this.connect()
UsTimerFire(t) ==
  /\ t \in us.timers
  /\ t.left = 0
  /\ us.closed \/ Len(us.hs) < MaxHandlers
  /\ us' = Connect([us EXCEPT !.timers = @ \ {t}])
  /\ UsOthers

\* time passes until the next multiple of baseRetryDelayMs; due timers run first
UsAdvance ==
  /\ us.timers # {}
  /\ \A t \in us.timers : t.left > 0
  /\ us' = [us EXCEPT !.timers =
              {[t EXCEPT !.left = @ - us_opts.baseRetryDelayMs] : t \in us.timers}]
  /\ UsOthers

\* Mutant of UsSendAudioChunk: a chunk that has to wait is put at the front
UsSendAudioChunkFront ==
  /\ us.inputs < MaxInputs
  /\ LET c == us.chunks + 1
         s1 == [us EXCEPT !.chunks = c, !.inputs = @ + 1]
     IN us' = IF s1.closed THEN s1
              ELSE IF ~s1.ready \/ s1.handler = 0
                THEN [s1 EXCEPT !.pendingAudio = <<c>> \o @]
                ELSE HandlerSendAudioChunk(s1, s1.handler, c)
  /\ UsOthers

\* sendAudioChunk(chunk)
UsSendAudioChunk ==
  /\ us.inputs < MaxInputs
  /\ LET c == us.chunks + 1
         s1 == [us EXCEPT !.chunks = c, !.inputs = @ + 1]
     IN us' = IF s1.closed THEN s1
              ELSE IF ~s1.ready \/ s1.handler = 0
                THEN [s1 EXCEPT !.pendingAudio = Append(@, c)]
                ELSE HandlerSendAudioChunk(s1, s1.handler, c)
  /\ UsOthers

\* commitAudio()
UsCommitAudio ==
  /\ us.inputs < MaxInputs
  /\ LET s1 == [us EXCEPT !.inputs = @ + 1]
     IN us' = IF s1.handler = 0 \/ ~s1.ready THEN s1
              ELSE HandlerCommitAudio(s1, s1.handler)
  /\ UsOthers

\* requestResponse(instructions)
UsRequestResponse ==
  /\ us.inputs < MaxInputs
  /\ LET s1 == [us EXCEPT !.inputs = @ + 1]
     IN us' = IF s1.handler = 0 \/ ~s1.ready THEN s1
              ELSE HandlerRequestResponse(s1, s1.handler)
  /\ UsOthers

\* close()
UsClose ==
  /\ ~us.closed
  /\ us' = HandlerClose(ClearRetryTimer([us EXCEPT !.closed = TRUE]), us.handler)
  /\ UsOthers

(***************************************************************************)
(* Upstream messages: OpenAIRealtimeSocketHandler.handleMessage and the     *)
(* listeners of OpenAiRtcSessionImpl.attachHandlers                         *)
(*                                                                         *)
(* A message is [form, type, delta, rid]: form "binary" is data that is    *)
(* neither a string nor a Buffer nor an ArrayBuffer, "garbled" is text     *)
(* that is not JSON, "untyped" is JSON without a string type, "typed" is   *)
(* JSON with one.  delta is a string (a sequence of characters, <<>> when  *)
(* empty or absent), rid is response_id.                                   *)
(***************************************************************************)
UsNoMsg == [form |-> "none", type |-> "", delta |-> <<>>, rid |-> 0]

UsTyped(type, delta, rid) == [form |-> "typed", type |-> type, delta |-> delta, rid |-> rid]

UsDeltas == {<<>>, <<"a">>, <<"b">>}

UsMessages ==
  {[form |-> f, type |-> "", delta |-> <<>>, rid |-> 0] : f \in {"binary", "garbled", "untyped"}}
  \cup {UsTyped("response.output_audio.delta", <<>>, 1),
        UsTyped("response.output_audio.delta", <<"a">>, 1),
        UsTyped("response.output_audio.delta", <<"b">>, 2)}
  \cup {UsTyped(ty, d, 0) : ty \in {"response.output_text.delta", "response.audio_transcript.delta"},
                            d \in UsDeltas}
  \cup {UsTyped(ty, <<>>, 0) : ty \in {"response.completed", "error", "session.created",
                                       "session.updated", "input_audio_buffer.speech_started"}}

\* an event of handler.events or session.events whose payload is msg (or part of it)
UsEvent(name, msg) ==
  [name |-> name, msg |-> msg, delta |-> <<>>, text |-> <<>>,
   base64 |-> <<>>, format |-> "", sampleRate |-> 0, responseId |-> 0]

\* Mutant of AudioDeltaPayload: the response id is left out
AudioDeltaPayloadNoId(name, m) ==
  [UsEvent(name, UsNoMsg) EXCEPT !.base64 = m.delta, !.format = "pcm16", !.sampleRate = 24000]

\* AudioDeltaPayload: {base64: msg.delta, format: 'pcm16', sampleRate: 24000,
\* responseId: msg.response_id}
AudioDeltaPayload(name, m) ==
  [UsEvent(name, UsNoMsg) EXCEPT !.base64 = m.delta, !.format = "pcm16",
                                 !.sampleRate = 24000, !.responseId = m.rid]

\* Mutant of HandlerEvents: a message of an unknown type is dropped
HandlerEventsDropUnknown(m) ==
  IF m.form \in {"binary", "untyped"} THEN <<UsEvent("raw", m)>>
  ELSE IF m.form = "garbled" THEN <<UsEvent("error", m)>>
  ELSE CASE m.type = "response.output_audio.delta" ->
              IF m.delta # <<>> THEN <<AudioDeltaPayload("audio.output", m)>> ELSE <<>>
         [] m.type = "response.output_text.delta" ->
              IF m.delta # <<>> THEN <<[UsEvent("transcript", UsNoMsg) EXCEPT !.delta = m.delta]>>
              ELSE <<>>
         [] m.type = "response.audio_transcript.delta" ->
              IF m.delta # <<>>
                THEN <<[UsEvent("audio_transcript", UsNoMsg) EXCEPT !.delta = m.delta]>>
                ELSE <<>>
         [] m.type = "response.completed" -> <<UsEvent("response.complete", m)>>
         [] m.type = "error" -> <<UsEvent("error", m)>>
         [] m.type \in {"session.created", "session.updated"} -> <<UsEvent("session.info", m)>>
         [] OTHER -> <<>>

\* handleMessage(data): the events handler.events emits for m
HandlerEvents(m) ==
  IF m.form \in {"binary", "untyped"} THEN <<UsEvent("raw", m)>>
  ELSE IF m.form = "garbled" THEN <<UsEvent("error", m)>>
  ELSE CASE m.type = "response.output_audio.delta" ->
              IF m.delta # <<>> THEN <<AudioDeltaPayload("audio.output", m)>> ELSE <<>>
         [] m.type = "response.output_text.delta" ->
              IF m.delta # <<>> THEN <<[UsEvent("transcript", UsNoMsg) EXCEPT !.delta = m.delta]>>
              ELSE <<>>
         [] m.type = "response.audio_transcript.delta" ->
              IF m.delta # <<>>
                THEN <<[UsEvent("audio_transcript", UsNoMsg) EXCEPT !.delta = m.delta]>>
                ELSE <<>>
         [] m.type = "response.completed" -> <<UsEvent("response.complete", m)>>
         [] m.type = "error" -> <<UsEvent("error", m)>>
         [] m.type \in {"session.created", "session.updated"} -> <<UsEvent("session.info", m)>>
         [] OTHER -> <<UsEvent("raw", m)>>

\* Mutant of HandlerOnMessage: response.completed leaves awaitingResponse alone
HandlerOnMessageKeepAwaiting(hd, m) ==
  IF m.form = "typed" /\ m.type = "response.output_audio.delta" /\ m.delta # <<>>
    THEN [hd EXCEPT !.pendingInputChunks = IF @ = <<>> THEN @ ELSE Tail(@)]
    ELSE hd

\* handleMessage(data): what it does to the handler's own fields
HandlerOnMessage(hd, m) ==
  IF m.form # "typed" THEN hd
  ELSE IF m.type = "response.output_audio.delta" /\ m.delta # <<>>
    THEN [hd EXCEPT !.pendingInputChunks = IF @ = <<>> THEN @ ELSE Tail(@)]
  ELSE IF m.type = "response.completed"
    THEN [hd EXCEPT !.awaitingResponse = FALSE]
  ELSE hd

UsSessionEmit(s, ev) == [s EXCEPT !.last.sessionEvents = Append(@, ev)]

\* the listeners attachHandlers puts on handler.events
SessionOn(s, ev) ==
  CASE ev.name = "audio.output" ->
         [UsSessionEmit(s, [ev EXCEPT !.name = "tts.chunk"]) EXCEPT
            !.audioOut = Append(@, [base64 |-> ev.base64, responseId |-> ev.responseId])]
    [] ev.name = "transcript" ->
         LET text == s.partialTranscript \o ev.delta
         IN UsSessionEmit([s EXCEPT !.partialTranscript = text],
                          [UsEvent("transcript.partial", UsNoMsg) EXCEPT
                             !.delta = ev.delta, !.text = text])
    [] ev.name = "response.complete" -> [s EXCEPT !.partialTranscript = <<>>]
    [] ev.name = "error" -> OnHandlerError(UsSessionEmit(s, ev))
    [] OTHER -> s

RECURSIVE SessionOnAll(_, _)
SessionOnAll(s, evs) ==
  IF evs = <<>> THEN s ELSE SessionOnAll(SessionOn(s, Head(evs)), Tail(evs))

\* history of what arrived, kept apart from the fields of the program
UsHeard(s, m) ==
  IF m.form = "typed" /\ m.type = "response.output_audio.delta"
    THEN [s EXCEPT !.audioIn = Append(@, [base64 |-> m.delta, responseId |-> m.rid])]
    ELSE s

\* ws 'message' on handler h: handleMessage(data), then the session's listeners
HandleMessage(s, h, m) ==
  LET evs == HandlerEvents(m)
      s1 == [UsHeard(s, m) EXCEPT
               !.hs[h] = HandlerOnMessage(@, m),
               !.last = [h |-> h, msg |-> m, handlerEvents |-> evs, sessionEvents |-> <<>>,
                         wasAwaiting |-> s.hs[h].awaitingResponse,
                         wasText |-> s.partialTranscript]]
  IN SessionOnAll(s1, evs)

\* the socket of h delivers message m
UsUpstreamMessage(h, m) ==
  /\ us.hs[h].ws \in {"open", "closing"}
  /\ us.msgs < MaxMsgs
  /\ us' = HandleMessage([us EXCEPT !.msgs = @ + 1], h, m)
  /\ UsOthers

UsNext ==
  \/ UsOwnerConnect
  \/ \E h \in UsHandlers : UsWsOpen(h)
  \/ \E h \in UsHandlers : UsWsConnectFail(h)
  \/ \E h \in UsHandlers : UsWsError(h)
  \/ \E h \in UsHandlers : UsWsClose(h)
  \/ \E h \in UsHandlers : UsUpstreamError(h)
  \/ \E t \in us.timers : UsTimerFire(t)
  \/ UsAdvance
  \/ UsSendAudioChunk
  \/ UsCommitAudio
  \/ UsRequestResponse
  \/ UsClose

\* an upstream session alone
UpstreamInit == UsInit /\ ChIdle /\ JbIdle /\ GwIdle /\ HkIdle /\ SgIdle

SpecUpstream == UpstreamInit /\ [][UsNext]_vars

\* an upstream session whose owner connects, sends audio and closes, without
\* commitAudio and requestResponse
SessionInit == UsInit /\ ChIdle /\ JbIdle /\ GwIdle /\ HkIdle /\ SgIdle

SessionNext ==
  \/ UsOwnerConnect
  \/ \E h \in UsHandlers : UsWsOpen(h)
  \/ \E h \in UsHandlers : UsWsConnectFail(h)
  \/ \E h \in UsHandlers : UsWsError(h)
  \/ \E h \in UsHandlers : UsWsClose(h)
  \/ \E h \in UsHandlers : UsUpstreamError(h)
  \/ \E t \in us.timers : UsTimerFire(t)
  \/ UsAdvance
  \/ UsSendAudioChunk
  \/ UsClose

SpecSession == SessionInit /\ [][SessionNext]_vars

\* an upstream session on sockets that open and stay open, under the messages
\* of the upstream: the reconnects are those the 'error' messages cause
DispatchInit ==
  /\ us_opts = [maxRetries |-> 1, baseRetryDelayMs |-> 250]
  /\ us = UsNew
  /\ ChIdle /\ JbIdle /\ GwIdle /\ HkIdle /\ SgIdle

DispatchNext ==
  \/ UsOwnerConnect
  \/ \E h \in UsHandlers : UsWsOpen(h)
  \/ \E h \in UsHandlers : \E m \in UsMessages : UsUpstreamMessage(h, m)
  \/ \E t \in us.timers : UsTimerFire(t)
  \/ UsAdvance
  \/ UsRequestResponse

SpecDispatch == DispatchInit /\ [][DispatchNext]_vars

RetryExhaustionOnce ==
  /\ us.limitErrors <= 1
  /\ us.afterLimit = {}

\* C10: every transition to Ready leaves retryCount = 0, and the first
\* reconnect scheduled after it is delayed by baseRetryDelayMs.
RetryCounterReset ==
  /\ [][us.epoch' # us.epoch => (us.retryCount' = 0 /\ us.ready')]_vars
  /\ [](\A e \in us.sched : e.n = 1 => e.delay = us_opts.baseRetryDelayMs)

RetryCounterResetWitness ==
  /\ us.epoch >= 1
  /\ \E e \in us.sched : e.epoch = 0 /\ e.n >= 2
  /\ \E e \in us.sched : e.epoch >= 1 /\ e.n = 1 /\ e.delay = us_opts.baseRetryDelayMs
  /\ us.retryCount = 1

(***************************************************************************)
(* Audio path of the session: pendingAudio, replay, close                  *)
(***************************************************************************)
\* the chunks of the append messages a socket has taken, in order
UsAppended(s, h) ==
  LET a == SelectSeq(s.hs[h].sent, LAMBDA m : m.type = "input_audio_buffer.append")
  IN [i \in 1..Len(a) |-> a[i].chunk]

UsAppendMsgs(chunks) ==
  [i \in 1..Len(chunks) |-> UsMsg("input_audio_buffer.append", chunks[i])]

\* how often chunk c was written to an open socket
UsTimesSent(s, c) ==
  Cardinality({<<h, i>> \in (1..Len(s.hs)) \X (1..MaxInputs + 1) :
                 /\ i <= Len(s.hs[h].sent)
                 /\ s.hs[h].sent[i] = UsMsg("input_audio_buffer.append", c)})

UsQueued(s, c) == \E i \in 1..Len(s.pendingAudio) : s.pendingAudio[i] = c

\* C12 (as stated): while the session has not been closed, every chunk passed
\* to sendAudioChunk is still in pendingAudio or was written to a socket that
\* was open; none was given to a socket that was not open.
NoAudioLoss ==
  ~us.closed =>
    /\ \A c \in 1..us.chunks : UsQueued(us, c) \/ UsTimesSent(us, c) >= 1
    /\ \A m \in us.unsent : m.type # "input_audio_buffer.append"

\* the status of the session: Ready once connect() has completed on a socket
\* that is still open
UsStatus(s) ==
  IF s.closed THEN "Closed"
  ELSE IF s.handler = 0 THEN "Disconnected"
  ELSE IF s.ready /\ s.hs[s.handler].ws = "open" THEN "Ready"
  ELSE IF s.hs[s.handler].ws = "connecting" THEN "Connecting"
  ELSE "Reconnecting"

\* C13 (as stated): sendAudioChunk on a session that is not closed forwards
\* the chunk at once, with one telemetry entry, exactly when the status is
\* Ready and appends it to pendingAudio otherwise; pendingAudio is empty
\* whenever the status is Ready.
SendAudioRouting ==
  /\ [][(us'.chunks # us.chunks /\ ~us.closed) =>
          LET c == us'.chunks
              h == us.handler
          IN IF UsStatus(us) = "Ready"
               THEN /\ us'.hs[h].sent =
                         Append(us.hs[h].sent, UsMsg("input_audio_buffer.append", c))
                    /\ us'.hs[h].pendingInputChunks = Append(us.hs[h].pendingInputChunks, c)
                    /\ us'.pendingAudio = us.pendingAudio
               ELSE /\ us'.pendingAudio = Append(us.pendingAudio, c)
                    /\ us'.hs = us.hs]_vars
  /\ [](UsStatus(us) = "Ready" => us.pendingAudio = <<>>)

\* the part of C13 the code keeps: with the ready flag in place of the status
SendAudioRoutingByFlag ==
  /\ [][(us'.chunks # us.chunks /\ ~us.closed) =>
          LET c == us'.chunks
              h == us.handler
          IN IF us.ready
               THEN /\ us'.hs[h].pendingInputChunks = Append(us.hs[h].pendingInputChunks, c)
                    /\ us'.pendingAudio = us.pendingAudio
               ELSE /\ us'.pendingAudio = Append(us.pendingAudio, c)
                    /\ us'.hs = us.hs]_vars
  /\ [](us.ready => us.pendingAudio = <<>>)

\* once closed: stays closed, no timer is set, no socket is created, the
\* session does not become Ready and no audio is written to a socket
UsClosedInert ==
  us.closed =>
    /\ us'.closed
    /\ {t.id : t \in us'.timers} \subseteq {t.id : t \in us.timers}
    /\ us'.sched = us.sched
    /\ Len(us'.hs) = Len(us.hs)
    /\ us'.epoch = us.epoch
    /\ \A h \in 1..Len(us.hs) : UsAppended(us', h) = UsAppended(us, h)

\* C14 (as stated): close() moves the session to Closed from any state and
\* leaves no timer pending; afterwards no reconnect is scheduled, no socket is
\* opened, the session never becomes Ready and no audio is sent upstream.
ExplicitClose ==
  /\ [][(~us.closed /\ us'.closed) => (UsStatus(us') = "Closed" /\ us'.timers = {})]_vars
  /\ [][UsClosedInert]_vars

\* the part of C14 that holds: everything but the cancellation of all timers
ExplicitCloseInert ==
  /\ [][(~us.closed /\ us'.closed) =>
          (UsStatus(us') = "Closed" /\ \A t \in us'.timers : t.id # us.retryTimer)]_vars
  /\ [][UsClosedInert]_vars

\* a step of commitAudio() or requestResponse()
UsControlStep ==
  /\ us'.inputs = us.inputs + 1
  /\ us'.chunks = us.chunks
  /\ us'.errors = us.errors

\* the session and its handlers without the history of calls and of discarded messages
UsFields(s) == [s EXCEPT !.inputs = 0, !.unsent = {}]

UsControlMsgs == {UsMsg("input_audio_buffer.commit", 0), UsMsg("response.create", 0)}

\* C15 (as stated): commitAudio and requestResponse put their message on the
\* socket only when the status is Ready; in every other status no socket takes
\* a message and the session and its handler are left as they were.
ControlOnlyWhenReady ==
  [][UsControlStep =>
       IF UsStatus(us) = "Ready"
         THEN \E m \in UsControlMsgs :
                us'.hs[us.handler].sent = Append(us.hs[us.handler].sent, m)
         ELSE UsFields(us') = UsFields(us)]_vars

\* the part of C15 that holds: nothing happens while the ready flag is unset
ControlOnlyWhenFlag ==
  [][(UsControlStep /\ ~us.ready) => UsFields(us') = UsFields(us)]_vars

(***************************************************************************)
(* Handshake                                                               *)
(***************************************************************************)
\* on every socket the first message is session.update and no later one is
UsHandshakeFirst(s) ==
  \A h \in 1..Len(s.hs) :
    \A i \in 1..Len(s.hs[h].sent) :
      (s.hs[h].sent[i].type = "session.update") <=> (i = 1)

\* a step in which the socket of some handler fails before it opened
UsConnectFailStep ==
  \E h \in 1..Len(us.hs) :
    us.hs[h].ws \in {"connecting", "aborting"} /\ us'.hs[h].ws = "closed"

UsBecomesReady == us'.epoch # us.epoch \/ (~us.ready /\ us'.ready)

\* C16 (as stated): session.update is the first message of every socket that
\* opens, is sent once, and is on the socket when the session becomes Ready
\* and before every append; a socket that fails to open does not make the
\* session Ready and, unless the session was closed, gets a reconnect scheduled.
HandshakeOrderingAlways ==
  /\ [](UsHandshakeFirst(us))
  /\ [][UsBecomesReady => us'.hs[us'.handler].sent[1] = UsMsg("session.update", 0)]_vars
  /\ [][UsConnectFailStep => (~UsBecomesReady /\ (~us.closed => us'.sched # us.sched))]_vars

\* C16 (amended): as above, but the reconnect is scheduled only if the session
\* is not closed and retryCount is below maxRetries when the socket fails.
HandshakeOrdering ==
  /\ [](UsHandshakeFirst(us))
  /\ [][UsBecomesReady => us'.hs[us'.handler].sent[1] = UsMsg("session.update", 0)]_vars
  /\ [][UsConnectFailStep =>
          /\ ~UsBecomesReady
          /\ (~us.closed /\ us.retryCount < us_opts.maxRetries) => us'.sched # us.sched
          /\ (us.closed \/ us.retryCount >= us_opts.maxRetries) => us'.sched = us.sched]_vars

\* the first socket failed and a reconnect was scheduled; the second one opened
\* and took session.update before the replayed chunk
HandshakeOrderingWitness ==
  /\ Len(us.hs) = 2
  /\ us.hs[1].ws = "closed" /\ us.hs[1].sent = <<>>
  /\ \E e \in us.sched : e.epoch = 0
  /\ us.epoch = 1 /\ us.ready
  /\ us.hs[2].sent = <<UsMsg("session.update", 0), UsMsg("input_audio_buffer.append", 1)>>
  /\ us.replayed = {1}

(***************************************************************************)
(* Dispatch of upstream messages                                           *)
(***************************************************************************)
UsConsumedTypes ==
  {"response.output_audio.delta", "response.output_text.delta",
   "response.audio_transcript.delta", "response.completed", "error",
   "session.created", "session.updated"}

\* a message that is not text, has no string type, or has a type that is not consumed
UsUnrecognized(m) ==
  \/ m.form \in {"binary", "untyped"}
  \/ m.form = "typed" /\ m.type \notin UsConsumedTypes

\* C17: a message that is not text, has no string type or has a type that is
\* not consumed makes the handler emit exactly one event, 'raw', whose payload
\* is the message.
RawForUnrecognized ==
  UsUnrecognized(us.last.msg) => us.last.handlerEvents = <<UsEvent("raw", us.last.msg)>>

\* a message of an unknown type arrived after a consumed one and gave a 'raw' event
RawForUnrecognizedWitness ==
  /\ us.msgs >= 2
  /\ us.last.msg.form = "typed"
  /\ us.last.msg.type = "input_audio_buffer.speech_started"
  /\ us.last.handlerEvents = <<UsEvent("raw", us.last.msg)>>

\* the event an audio delta is to give: its base64 payload, a format, a sample
\* rate and its response id
UsAudioEvent(name, m) ==
  [name |-> name, msg |-> UsNoMsg, delta |-> <<>>, text |-> <<>>,
   base64 |-> m.delta, format |-> "pcm16", sampleRate |-> 24000, responseId |-> m.rid]

UsIsAudioDelta(m) == m.form = "typed" /\ m.type = "response.output_audio.delta"

\* C18 (as stated): every response.output_audio.delta gives exactly one
\* 'audio.output' event (and one 'tts.chunk' of the session) with its payload,
\* and these events come in the order of the deltas.
AudioDeltaDispatchAll ==
  /\ UsIsAudioDelta(us.last.msg) =>
       /\ us.last.handlerEvents = <<UsAudioEvent("audio.output", us.last.msg)>>
       /\ us.last.sessionEvents = <<UsAudioEvent("tts.chunk", us.last.msg)>>
  /\ us.audioOut = us.audioIn

\* C18 (amended): every response.output_audio.delta with a non-empty delta
\* gives exactly one 'audio.output' event (and one 'tts.chunk' of the session)
\* with its payload, one with an empty or absent delta gives no event, and the
\* events come in the order of the deltas.
AudioDeltaDispatch ==
  /\ UsIsAudioDelta(us.last.msg) =>
       IF us.last.msg.delta # <<>>
         THEN /\ us.last.handlerEvents = <<UsAudioEvent("audio.output", us.last.msg)>>
              /\ us.last.sessionEvents = <<UsAudioEvent("tts.chunk", us.last.msg)>>
         ELSE us.last.handlerEvents = <<>> /\ us.last.sessionEvents = <<>>
  /\ (~UsIsAudioDelta(us.last.msg) /\ us.last.msg.form # "none") =>
       \A i \in 1..Len(us.last.handlerEvents) : us.last.handlerEvents[i].name # "audio.output"
  /\ us.audioOut = SelectSeq(us.audioIn, LAMBDA d : d.base64 # <<>>)

\* deltas "b" (response 2), an empty one and "a" (response 1) arrived in this order
AudioDeltaDispatchWitness ==
  /\ us.audioIn = <<[base64 |-> <<"b">>, responseId |-> 2], [base64 |-> <<>>, responseId |-> 1],
                    [base64 |-> <<"a">>, responseId |-> 1]>>
  /\ us.audioOut = <<[base64 |-> <<"b">>, responseId |-> 2], [base64 |-> <<"a">>, responseId |-> 1]>>
  /\ us.last.sessionEvents = <<UsAudioEvent("tts.chunk", us.last.msg)>>

UsTranscriptTypes == {"response.output_text.delta", "response.audio_transcript.delta"}

UsIsTranscriptDelta(m, types) == m.form = "typed" /\ m.type \in types /\ m.delta # <<>>

UsPartialEvent(delta, text) ==
  [name |-> "transcript.partial", msg |-> UsNoMsg, delta |-> delta, text |-> text,
   base64 |-> <<>>, format |-> "", sampleRate |-> 0, responseId |-> 0]

\* C19 (as stated): every response.audio_transcript.delta and every
\* response.output_text.delta with a delta makes the session emit one
\* partial-transcript event with that delta, whose text is the text
\* accumulated before it (empty after a response.completed) followed by the
\* delta.
TranscriptDispatch ==
  UsIsTranscriptDelta(us.last.msg, UsTranscriptTypes) =>
    us.last.sessionEvents =
      <<UsPartialEvent(us.last.msg.delta, us.last.wasText \o us.last.msg.delta)>>

\* the part of C19 that holds: the same for response.output_text.delta alone;
\* no other message but response.completed changes the accumulated text
TranscriptDispatchText ==
  [][us'.msgs # us.msgs =>
       IF UsIsTranscriptDelta(us'.last.msg, {"response.output_text.delta"})
         THEN /\ us'.partialTranscript = us.partialTranscript \o us'.last.msg.delta
              /\ us'.last.sessionEvents =
                   <<UsPartialEvent(us'.last.msg.delta, us'.partialTranscript)>>
         ELSE /\ us'.partialTranscript \in {us.partialTranscript, <<>>}
              /\ us'.partialTranscript # us.partialTranscript
                   => us'.last.msg.type = "response.completed"]_vars

\* a step that handles an upstream response.completed
UsCompletedStep ==
  /\ us'.msgs # us.msgs
  /\ us'.last.msg.form = "typed"
  /\ us'.last.msg.type = "response.completed"

\* C20: right after a response.completed has been handled, awaitingResponse of
\* the handler that got it is false and partialTranscript of the session is
\* empty, whatever they were before.
CompletionClears ==
  [][UsCompletedStep =>
       /\ ~us'.hs[us'.last.h].awaitingResponse
       /\ us'.partialTranscript = <<>>
       /\ us'.last.handlerEvents = <<UsEvent("response.complete", us'.last.msg)>>]_vars

\* a response was requested and two transcript deltas had arrived when the
\* completion came
CompletionClearsWitness ==
  /\ us.last.msg.type = "response.completed"
  /\ us.last.wasAwaiting
  /\ Len(us.last.wasText) = 2
  /\ ~us.hs[us.last.h].awaitingResponse
  /\ us.partialTranscript = <<>>

(***************************************************************************)
(* OwnWebSocketGateway: one client, its two pipelines and the latency      *)
(* telemetry.  handleConnection is the one with createBrowserToRtcPipeline *)
(* and createRtcToBrowserPipeline, handleSoundDataFromClient the one with  *)
(* the PCM branch.                                                         *)
(***************************************************************************)
OgDirections == {"in", "up", "ai"}

\* Mutant of Shift: the newest entry is taken
ShiftNewest(q) ==
  IF q = <<>> THEN [entry |-> 0, rest |-> q]
  ELSE [entry |-> q[Len(q)], rest |-> SubSeq(q, 1, Len(q) - 1)]

\* Array.prototype.shift(): the oldest entry, or undefined (0) when empty
Shift(q) ==
  IF q = <<>> THEN [entry |-> 0, rest |-> q]
  ELSE [entry |-> Head(q), rest |-> Tail(q)]

\* const telemetry = pending.shift(); if (telemetry) {log latency} else {log}
OgCorrelate(g, d) ==
  LET r == Shift(g.queue[d])
  IN [g EXCEPT !.queue[d] = r.rest,
               !.popped[d] = Append(@, r.entry),
               !.artifacts[d] = @ + 1]

\* pending.push({...})
OgRecord(g, d) ==
  LET e == Len(g.recorded[d]) + 1
  IN [g EXCEPT !.queue[d] = Append(@, e), !.recorded[d] = Append(@, e)]

\* openAIHandler.sendAudioChunk(chunk): telemetry entry, then ws.send, which
\* a socket that is not open discards
OgHandlerSend(g, chunk) ==
  LET g1 == OgRecord(g, "up")
  IN IF g.ws = "open" THEN [g1 EXCEPT !.sent = Append(@, chunk)] ELSE g1

OgChunk(src, n) == [src |-> src, n |-> n]

OgOthers == UNCHANGED <<ch_vars, jb_vars, us_vars, rg, hk, sg>>

\* handleConnection up to its await: both pipelines (ffmpeg processes, the
\* jitter buffer started), the data listeners, the handler and its listeners
OgHandleConnection ==
  /\ og.stage = "none"
  /\ og' = [og EXCEPT !.stage = "connecting", !.ws = "connecting",
                      !.codec = [in |-> "running", ai |-> "running"],
                      !.jitterTimer = TRUE]
  /\ OgOthers

\* the upstream socket opens: handleConnection resumes, this.clients.set
OgUpstreamOpen ==
  /\ og.ws = "connecting"
  /\ og' = [og EXCEPT !.ws = "open", !.stage = "connected", !.registered = TRUE,
                      !.toClient = Append(@, [type |-> "text", of |-> OgChunk("none", 0)])]
  /\ OgOthers

\* the upstream socket fails to open: the 'error' listener logs, the await
\* rejects and handleConnection ends without this.clients.set
OgUpstreamFail ==
  /\ og.ws = "connecting"
  /\ og' = [og EXCEPT !.ws = "closed", !.stage = "failed"]
  /\ OgOthers

\* the upstream socket closes
OgUpstreamClose ==
  /\ og.ws = "open"
  /\ og' = [og EXCEPT !.ws = "closed"]
  /\ OgOthers

\* handleSoundDataFromClient(data, client) of a client in this.clients (for
\* any other it returns at once); valid: msgDataFromClientSchema.parse passes
OgSoundData(valid, pcm) ==
  /\ og.registered
  /\ Len(og.arrived) + og.thrown < MaxSound
  /\ og' = IF ~valid THEN [og EXCEPT !.thrown = @ + 1]
           ELSE LET id == Len(og.arrived) + 1
                    g1 == [og EXCEPT !.arrived = Append(@, [id |-> id, pcm |-> pcm])]
                IN IF pcm
                     THEN OgHandlerSend(OgRecord(g1, "in"), OgChunk("client", id))
                     ELSE OgRecord([g1 EXCEPT !.converter = Append(@, id)], "in")
  /\ OgOthers

\* browserToRtc.output.on('data'): a PCM chunk of the first codec
OgPcmChunk ==
  /\ og.codec["in"] = "running"
  /\ og.converter # <<>>
  /\ og.artifacts["in"] < MaxArtifacts
  /\ og' = OgHandlerSend(OgCorrelate(og, "in"), OgChunk("codec", og.artifacts["in"] + 1))
  /\ OgOthers

\* a non-empty response.output_audio.delta: handleMessage, then the
\* 'audio.output' listener of handleConnection
OgAudioDelta ==
  /\ og.ws = "open"
  /\ og.artifacts["up"] < MaxArtifacts
  /\ og' = LET g1 == OgRecord(OgCorrelate(og, "up"), "ai")
           IN [g1 EXCEPT !.reverse = Append(@, og.artifacts["up"] + 1)]
  /\ OgOthers

\* rtcToBrowser.output.on('data'): a WebM chunk the jitter buffer released
OgWebmChunk ==
  /\ og.codec["ai"] = "running"
  /\ og.jitterTimer
  /\ og.reverse # <<>>
  /\ og.artifacts["ai"] < MaxArtifacts
  /\ og' = [OgCorrelate(og, "ai") EXCEPT
              !.toClient = Append(@, [type |-> "play-data",
                                      of |-> OgChunk("codec", og.artifacts["ai"] + 1)])]
  /\ OgOthers

\* an ffmpeg process fails: input.emit('error', err), which no listener of
\* the gateway hears
OgCodecError(d) ==
  /\ og.codec[d] = "running"
  /\ og' = [og EXCEPT !.codec[d] = "failed"]
  /\ OgOthers

\* handleDisconnect(client): clientData.audioFileStream?.end(), the two
\* mp3 conversions, this.clients.delete; clientData is undefined for a client
\* that is not in this.clients
OgHandleDisconnect ==
  /\ og.stage # "none"
  /\ og.disconnects = 0
  /\ og' = IF og.registered
             THEN [og EXCEPT !.registered = FALSE, !.disconnects = @ + 1]
             ELSE [og EXCEPT !.thrown = @ + 1, !.disconnects = @ + 1]
  /\ OgOthers

OgNext ==
  \/ OgHandleConnection
  \/ OgUpstreamOpen
  \/ OgUpstreamFail
  \/ OgUpstreamClose
  \/ \E valid \in BOOLEAN : \E pcm \in BOOLEAN : OgSoundData(valid, pcm)
  \/ OgPcmChunk
  \/ OgAudioDelta
  \/ OgWebmChunk
  \/ \E d \in {"in", "ai"} : OgCodecError(d)
  \/ OgHandleDisconnect

\* one client of OwnWebSocketGateway
OwnGatewayInit == og = OgNew /\ rg = RgNew /\ ChIdle /\ JbIdle /\ UsIdle /\ HkIdle /\ SgIdle

SpecOwnGateway == OwnGatewayInit /\ [][OgNext]_vars

(***************************************************************************)
(* RealtimeGateway: the process and its client sessions.  A client message *)
(* is [json, type, data]: json is FALSE for text JSON.parse rejects, type  *)
(* is message.type ("none" when absent), data is what message.data is:     *)
(* "none", "number", "empty" (the empty string) or "b64" (a string).       *)
(***************************************************************************)
RgMsg(type, data) == [json |-> TRUE, type |-> type, data |-> data]

RgMessages ==
  {[json |-> FALSE, type |-> "none", data |-> "none"]}
  \cup {RgMsg("audio.chunk", d) : d \in {"none", "number", "empty", "b64"}}
  \cup {RgMsg("audio", "b64"), RgMsg("none", "none"), RgMsg("none", "b64")}
  \cup {RgMsg("audio.commit", "none"), RgMsg("response.request", "none"),
        RgMsg("ping", "none")}

RgError(reason) == [type |-> "error", reason |-> reason]

\* Mutant of RgClassify: a message of an unknown type is ignored
RgClassifyLenient(m) ==
  IF ~m.json THEN "invalid_payload"
  ELSE CASE m.type \in {"audio.chunk", "audio", "none"} ->
              IF m.data # "b64" THEN "missing_audio_data" ELSE "forward"
         [] m.type = "audio.commit" -> "commit"
         [] m.type = "response.request" -> "request"
         [] OTHER -> "ignore"

\* handleClientMessage / forwardAudioChunk: what becomes of message m, an
\* upstream call or the reason of an error reply
RgClassify(m) ==
  IF ~m.json THEN "invalid_payload"
  ELSE CASE m.type \in {"audio.chunk", "audio", "none"} ->
              IF m.data # "b64" THEN "missing_audio_data" ELSE "forward"
         [] m.type = "audio.commit" -> "commit"
         [] m.type = "response.request" -> "request"
         [] OTHER -> "unknown_message_type"

\* client.send(...): a socket that is not open discards the message
RgClientSend(s, msg) ==
  IF s.client = "open" THEN [s EXCEPT !.out = Append(@, msg)] ELSE s

\* session.openAI.<call>: ws.send, which a socket that is not open discards
RgUpstreamSend(s, type) ==
  IF s.ws = "open" THEN [s EXCEPT !.sent = Append(@, type)] ELSE s

\* handleClientMessage(client, rawData)
RgOnMessage(s, m) ==
  LET what == RgClassify(m)
  IN CASE what = "forward" -> RgUpstreamSend(s, "input_audio_buffer.append")
       [] what = "commit" -> RgUpstreamSend(s, "input_audio_buffer.commit")
       [] what = "request" -> RgUpstreamSend(s, "response.create")
       [] what = "ignore" -> s
       [] OTHER -> RgClientSend(s, RgError(what))

\* the process exits on an uncaught exception: every socket it held is closed
RgExit ==
  [up |-> FALSE,
   cl |-> [c \in RgClients |->
             IF rg.cl[c].stage = "none" THEN rg.cl[c]
             ELSE [rg.cl[c] EXCEPT !.stage = "lost", !.client = "closed", !.ws = "closed",
                                   !.session = FALSE, !.listening = FALSE]],
   steps |-> rg.steps]

RgOthers == UNCHANGED <<ch_vars, jb_vars, us_vars, og, hk, sg>>

\* Mutant of RgHandleConnection: 'ready' is sent before the upstream is awaited
RgHandleConnectionEager(c, auth) ==
  /\ rg.up
  /\ rg.cl[c].stage = "none"
  /\ rg' = [rg EXCEPT !.cl[c] = [@ EXCEPT !.stage = "connecting", !.authorized = auth,
                                          !.client = "open", !.ws = "connecting",
                                          !.out = <<[type |-> "ready", reason |-> ""]>>]]
  /\ RgOthers

\* handleConnection(client, request) up to its await; the result of
\* isAuthorized is not acted on
RgHandleConnection(c, auth) ==
  /\ rg.up
  /\ rg.cl[c].stage = "none"
  /\ rg' = [rg EXCEPT !.cl[c] = [@ EXCEPT !.stage = "connecting", !.authorized = auth,
                                          !.client = "open", !.ws = "connecting"]]
  /\ RgOthers

\* the upstream socket of c opens: handleOpen sends the handshake, then
\* handleConnection resumes: 'ready', this.sessions.set, the listeners
RgUpstreamOpen(c) ==
  /\ rg.up
  /\ rg.cl[c].ws = "connecting"
  /\ rg' = [rg EXCEPT !.cl[c] =
              [RgClientSend(RgUpstreamSend([@ EXCEPT !.ws = "open"], "session.update"),
                            [type |-> "ready", reason |-> ""])
                 EXCEPT !.stage = "ready", !.session = TRUE, !.listening = TRUE]]
  /\ RgOthers

\* the upstream socket of c fails to open: the handler's own 'error' listener
\* runs first and emits 'error' on handler.events, which has no listener yet
\* (handleConnection registers it after the await): the emit throws inside
\* the socket's callback
RgUpstreamFail(c) ==
  /\ rg.up
  /\ rg.cl[c].ws \in {"connecting", "aborting"}
  /\ rg' = RgExit
  /\ RgOthers

\* client.on('message') of c
RgClientMessage(c, m) ==
  /\ rg.up
  /\ rg.cl[c].listening /\ rg.cl[c].client = "open"
  /\ rg.steps < MaxEvents
  /\ rg' = [rg EXCEPT !.steps = @ + 1,
                      !.cl[c] = RgOnMessage([@ EXCEPT !.received = @ + 1, !.lastMsg = m], m)]
  /\ RgOthers

\* the upstream of c delivers an audio delta (forwardTts) or an error
\* (forwardError)
RgUpstreamEvent(c, kind) ==
  /\ rg.up
  /\ rg.cl[c].listening /\ rg.cl[c].ws \in {"open", "closing"}
  /\ rg.steps < MaxEvents
  /\ rg' = [rg EXCEPT !.steps = @ + 1,
                      !.cl[c] = RgClientSend(@, IF kind = "audio"
                                                  THEN [type |-> "tts-chunk", reason |-> ""]
                                                  ELSE RgError("upstream_error"))]
  /\ RgOthers

\* the upstream socket of c closes
RgUpstreamClose(c) ==
  /\ rg.up
  /\ rg.cl[c].ws \in {"open", "closing"}
  /\ rg' = [rg EXCEPT !.cl[c].ws = "closed"]
  /\ RgOthers

\* the client's socket closes: handleDisconnect(client)
RgHandleDisconnect(c) ==
  /\ rg.up
  /\ rg.cl[c].client = "open"
  /\ rg' = [rg EXCEPT !.cl[c] =
              IF @.session
                THEN [@ EXCEPT !.client = "closed", !.session = FALSE,
                               !.ws = CASE @ = "open" -> "closing"
                                        [] @ = "connecting" -> "aborting"
                                        [] OTHER -> @]
                ELSE [@ EXCEPT !.client = "closed"]]
  /\ RgOthers

RgNext ==
  \/ \E c \in RgClients : \E auth \in BOOLEAN : RgHandleConnection(c, auth)
  \/ \E c \in RgClients : RgUpstreamOpen(c)
  \/ \E c \in RgClients : RgUpstreamFail(c)
  \/ \E c \in RgClients : \E m \in RgMessages : RgClientMessage(c, m)
  \/ \E c \in RgClients : \E kind \in {"audio", "error"} : RgUpstreamEvent(c, kind)
  \/ \E c \in RgClients : RgUpstreamClose(c)
  \/ \E c \in RgClients : RgHandleDisconnect(c)

\* RealtimeGateway with its clients
RealtimeInit == rg = RgNew /\ og = OgNew /\ ChIdle /\ JbIdle /\ UsIdle /\ HkIdle /\ SgIdle

SpecRealtime == RealtimeInit /\ [][RgNext]_vars

(***************************************************************************)
(* Upstream error events and reconnects after a failure                    *)
(***************************************************************************)

\* the step is a message for which handler.events emitted 'error' (an 'error'
\* message or text that is not JSON), on the open socket of a Ready session
UsErrorWhileUsable ==
  /\ us'.msgs = us.msgs + 1
  /\ \E i \in DOMAIN us'.last.handlerEvents : us'.last.handlerEvents[i].name = "error"
  /\ us'.last.h = us.handler
  /\ UsStatus(us) = "Ready"

\* C21: an error event is surfaced to the owner, and one received while the
\* socket is open and usable leaves the session Ready, schedules no reconnect
\* and consumes no retry
UpstreamErrorEvents ==
  [][UsErrorWhileUsable =>
       /\ us'.errors = us.errors + 1
       /\ \E i \in DOMAIN us'.last.sessionEvents : us'.last.sessionEvents[i].name = "error"
       /\ UsStatus(us') = "Ready"
       /\ us'.retryCount = us.retryCount
       /\ us'.timers = us.timers
       /\ us'.limitErrors = us.limitErrors]_vars

\* the part of C21 the code keeps: the error event is surfaced to the owner
\* and the socket it came from is left open
UpstreamErrorSurfaced ==
  [][UsErrorWhileUsable =>
       /\ us'.errors = us.errors + 1
       /\ \E i \in DOMAIN us'.last.sessionEvents : us'.last.sessionEvents[i].name = "error"
       /\ us'.hs[us.handler].ws = "open"]_vars

\* the step is the 'close' of the socket of a session that was Ready and had
\* scheduled nothing since, apart from what the 'error' event of that same
\* socket scheduled just before (the socket is then "closing")
UsSocketLost ==
  /\ us.handler # 0
  /\ ~us.closed /\ us.ready
  /\ us.hs[us.handler].ws \in {"open", "closing"}
  /\ us'.hs[us.handler].ws = "closed"
  /\ us.sinceReady = (IF us.hs[us.handler].ws = "closing" THEN 1 ELSE 0)
  /\ us_opts.baseRetryDelayMs = 500

\* C22: when a Ready session with retryCount 0 and baseRetryDelayMs 500 loses
\* its socket, the failure as a whole (error event, close event) schedules
\* exactly one reconnect, delayed by 500 ms, and adds exactly 1 to retryCount
OneReconnectPerFailure ==
  [][UsSocketLost =>
       /\ us'.sinceReady = 1
       /\ us'.retryCount = 1
       /\ \A e \in us'.sched : e.epoch = us.epoch => (e.n = 1 /\ e.delay = 500)
       /\ Cardinality(us'.timers) = 1]_vars

\* the part of C22 the code keeps: a socket that closes without an 'error'
\* event before schedules one reconnect, delayed by 500 ms
OneReconnectPerClose ==
  [][(UsSocketLost /\ us.hs[us.handler].ws = "open") =>
       /\ us'.sinceReady = 1
       /\ us'.retryCount = 1
       /\ \A e \in us'.sched : e.epoch = us.epoch => (e.n = 1 /\ e.delay = 500)]_vars

(***************************************************************************)
(* Gateway: latency telemetry                                              *)
(***************************************************************************)
\* the entries the shifts of a queue returned, without the undefined ones
OgMatched(d) == SelectSeq(og.popped[d], LAMBDA e : e # 0)

\* the step is an artifact of direction d arriving while the queue of d is empty
OgUnmatchedArtifact(d) ==
  /\ og'.artifacts[d] = og.artifacts[d] + 1
  /\ og.queue[d] = <<>>

\* the artifact of the step was passed on: a PCM chunk to
\* openAIHandler.sendAudioChunk, an audio delta to the second codec, a WebM
\* chunk to the client
OgForwarded(d) ==
  CASE d = "in" -> Len(og'.recorded["up"]) = Len(og.recorded["up"]) + 1
    [] d = "up" -> og'.reverse = Append(og.reverse, og'.artifacts["up"])
    [] d = "ai" -> /\ Len(og'.toClient) = Len(og.toClient) + 1
                   /\ og'.toClient[Len(og'.toClient)].type = "play-data"

\* C23: in each direction the entries are popped in the order they were
\* recorded (what was recorded is what was matched so far followed by what is
\* still pending), and an artifact that finds its queue empty pops nothing,
\* throws nothing, is still forwarded and leaves the queue and the state of
\* the connection as they were
TelemetryFifo ==
  /\ [](\A d \in OgDirections : og.recorded[d] = OgMatched(d) \o og.queue[d])
  /\ [][\A d \in OgDirections :
          OgUnmatchedArtifact(d) =>
            /\ og'.queue[d] = <<>>
            /\ og'.popped[d] = Append(og.popped[d], 0)
            /\ og'.recorded[d] = og.recorded[d]
            /\ og'.thrown = og.thrown
            /\ OgForwarded(d)
            /\ <<og'.stage, og'.registered, og'.ws, og'.codec, og'.jitterTimer>>
                 = <<og.stage, og.registered, og.ws, og.codec, og.jitterTimer>>]_vars

\* two entries of one queue were matched in order, and an artifact of each of
\* the other two directions found its queue empty
TelemetryFifoWitness ==
  /\ \E d \in OgDirections : og.popped[d] = <<1, 2>>
  /\ \E d \in OgDirections : \E i \in DOMAIN og.popped[d] :
       og.popped[d][i] = 0 /\ og.recorded[d] # <<>>
  /\ Cardinality({d \in OgDirections : \E i \in DOMAIN og.popped[d] : og.popped[d][i] = 0}) >= 2

(***************************************************************************)
(* Gateway: client protocol errors                                         *)
(***************************************************************************)
RgAudioTypes == {"audio.chunk", "audio", "none"}

\* the reason the protocol gives for a client message that is not valid JSON,
\* has an unrecognized type tag, or is an audio message without string data;
\* "" for any other message
RgProtocolError(m) ==
  IF ~m.json THEN "invalid_payload"
  ELSE IF m.type \notin RgAudioTypes \cup {"audio.commit", "response.request"}
    THEN "unknown_message_type"
  ELSE IF m.type \in RgAudioTypes /\ m.data \in {"none", "number"}
    THEN "missing_audio_data"
  ELSE ""

RgWellFormedAudio(m) == m.json /\ m.type \in RgAudioTypes /\ m.data = "b64"

\* the part of C24 that RealtimeGateway keeps: a client message that is not
\* valid JSON, has an unrecognized type or is an audio message without string
\* data gets exactly one {type: 'error', reason} reply, sends nothing upstream
\* and leaves the connection open; a well-formed audio chunk, also after such
\* messages, is forwarded upstream
ClientErrorsRecoverable ==
  [][\A c \in RgClients :
       rg'.cl[c].received = rg.cl[c].received + 1 =>
         LET m == rg'.cl[c].lastMsg
             before == rg.cl[c]
             after == rg'.cl[c]
         IN /\ RgProtocolError(m) # "" =>
                 /\ after.out = Append(before.out, RgError(RgProtocolError(m)))
                 /\ after.sent = before.sent
                 /\ after.client = "open" /\ after.ws = before.ws
                 /\ after.session /\ after.listening
            /\ (RgWellFormedAudio(m) /\ before.ws = "open") =>
                 /\ after.sent = Append(before.sent, "input_audio_buffer.append")
                 /\ after.out = before.out]_vars

\* a client whose first message got an error reply and whose second message,
\* a well-formed audio chunk, went upstream
ClientErrorsRecoverableWitness ==
  \E c \in RgClients :
    /\ rg.cl[c].received = 2
    /\ RgWellFormedAudio(rg.cl[c].lastMsg)
    /\ rg.cl[c].out = <<[type |-> "ready", reason |-> ""], RgError("unknown_message_type")>>
    /\ rg.cl[c].sent = <<"session.update", "input_audio_buffer.append">>
    /\ rg.cl[c].client = "open"

\* the step is handleSoundDataFromClient rejecting its message: the chunk is
\* not a string, or another field of the schema is missing
OgSoundDataRejected ==
  /\ og'.thrown = og.thrown + 1
  /\ og'.disconnects = og.disconnects

\* C24: a client message that is not valid JSON, has an unrecognized type or
\* is an audio message without string data gets exactly one {type: 'error',
\* reason} reply, sends nothing upstream and leaves the connection open, and a
\* later well-formed chunk is still forwarded; here for the sound data
\* messages of OwnWebSocketGateway
ClientProtocolErrors ==
  [][OgSoundDataRejected =>
       /\ Len(og'.toClient) = Len(og.toClient) + 1
       /\ og'.toClient[Len(og'.toClient)].type = "error"
       /\ og'.sent = og.sent /\ og'.converter = og.converter
       /\ og'.registered]_vars

\* what OwnWebSocketGateway keeps of C24: a rejected message changes nothing
\* of the connection, so that a later well-formed chunk is handled as before
ClientProtocolErrorsInert ==
  [][OgSoundDataRejected => og' = [og EXCEPT !.thrown = @ + 1]]_vars

(***************************************************************************)
(* Gateway: teardown on disconnect                                         *)
(***************************************************************************)
\* C25: in every state after handleDisconnect has returned, no transcoding
\* process, no jitter buffer tick timer and no upstream socket of the session
\* is still live
SessionTeardown ==
  og.disconnects > 0 =>
    /\ og.codec["in"] # "running" /\ og.codec["ai"] # "running"
    /\ ~og.jitterTimer
    /\ og.ws \notin {"connecting", "open"}

\* what RealtimeGateway keeps of C25: handleDisconnect of a client that is in
\* this.sessions closes the upstream socket and removes the session
RealtimeTeardown ==
  [][\A c \in RgClients :
       (rg.cl[c].client = "open" /\ rg'.cl[c].client = "closed" /\ rg'.up /\ rg.cl[c].session) =>
         /\ rg'.cl[c].ws \in {"closing", "aborting", "closed"}
         /\ ~rg'.cl[c].session]_vars

(***************************************************************************)
(* Gateway: the 'ready' notification                                       *)
(***************************************************************************)
RgReadyAt(c) == {i \in DOMAIN rg.cl[c].out : rg.cl[c].out[i].type = "ready"}

OgCodecFailed ==
  \E d \in {"in", "ai"} : og.codec[d] = "running" /\ og'.codec[d] = "failed"

\* C27: when the codec process of a session reports an error, the pipelines
\* of that session are terminated (neither process keeps running, the jitter
\* buffer's timer is cleared) and its client is sent an error message
TranscodeFailureContained ==
  [][OgCodecFailed =>
       /\ og'.codec["in"] # "running" /\ og'.codec["ai"] # "running"
       /\ ~og'.jitterTimer
       /\ Len(og'.toClient) = Len(og.toClient) + 1
       /\ og'.toClient[Len(og'.toClient)].type = "error"]_vars

\* what the code does instead: the failure changes nothing but the process
\* that failed
TranscodeFailureSilent ==
  [][OgCodecFailed => \E d \in {"in", "ai"} : og' = [og EXCEPT !.codec[d] = "failed"]]_vars

(***************************************************************************)
(* Gateway: isolation of the sessions                                      *)
(***************************************************************************)
\* C28: a step of one session (client message, upstream event, failure,
\* disconnect) leaves every state component of the other sessions unchanged
SessionIsolation ==
  [][\A a \in RgClients : \A b \in RgClients \ {a} :
       rg'.cl[a] # rg.cl[a] => rg'.cl[b] = rg.cl[b]]_vars

\* what the code keeps of C28: as long as the process runs, a step changes the
\* state of one session only
SessionIsolationWhileUp ==
  [][rg'.up => \A a \in RgClients : \A b \in RgClients \ {a} :
                 rg'.cl[a] # rg.cl[a] => rg'.cl[b] = rg.cl[b]]_vars

(***************************************************************************)
(* Ordering of the inbound audio                                           *)
(***************************************************************************)
\* the append messages written to open sockets: [h, i, chunk].  Every send
\* goes to the current handler and handlers are numbered as they are
\* created, so (h, i) in lexicographic order is the order in time
UsSends ==
  {[h |-> h, i |-> i, chunk |-> UsAppended(us, h)[i]] :
     <<h, i>> \in {<<h, i>> \in (1..Len(us.hs)) \X (1..MaxInputs + 1) :
                     i <= Len(UsAppended(us, h))}}

\* the ids of the chunks of the client that were not PCM, in arrival order
OgForCodec ==
  LET a == SelectSeq(og.arrived, LAMBDA e : ~e.pcm)
  IN [i \in 1..Len(a) |-> a[i].id]

\* the numbers of the PCM chunks of the codec given to the handler, in order
OgFromCodec ==
  LET a == SelectSeq(og.sent, LAMBDA e : e.src = "codec")
  IN [i \in 1..Len(a) |-> a[i].n]

InboundOrderingGatewayWitness ==
  /\ og.converter = <<1, 2>>
  /\ OgFromCodec = <<1, 2>>

(***************************************************************************)
(* Gateway: authorization of a connection                                  *)
(***************************************************************************)
\* C30: a connection for which isAuthorized returned false is closed by the
\* gateway, gets no upstream session and no 'ready', and nothing of it is
\* forwarded upstream
AuthorizationGate ==
  \A c \in RgClients :
    (rg.cl[c].stage # "none" /\ ~rg.cl[c].authorized) =>
      /\ rg.cl[c].client = "closed"
      /\ rg.cl[c].ws = "none" /\ ~rg.cl[c].session
      /\ RgReadyAt(c) = {}
      /\ rg.cl[c].sent = <<>>

\* what the code does instead: the result of isAuthorized changes nothing
AuthorizationIgnored ==
  [][\A c \in RgClients :
       (rg.cl[c].stage = "none" /\ rg'.cl[c].stage # "none") =>
         [rg'.cl[c] EXCEPT !.authorized = TRUE] =
           [RgNoClient EXCEPT !.stage = "connecting", !.authorized = TRUE,
                              !.client = "open", !.ws = "connecting"]]_vars

(***************************************************************************)
(* Recovery of the upstream session.  The session is left alone by its     *)
(* owner after connect(); sockets open, fail and close; a socket that is   *)
(* connecting is refused only while fewer than maxRetries - 1 sockets in a *)
(* row were refused, so that the upstream accepts a connection before      *)
(* maxRetries consecutive failures.  Timers that are due fire, time        *)
(* passes while timers are pending, and a pending connect resolves.        *)
(***************************************************************************)
\* the sockets that closed without ever opening since the last one that opened
UsFailedSince(s) ==
  LET opened == {h \in 1..Len(s.hs) : s.hs[h].sent # <<>>}
  IN Cardinality({h \in 1..Len(s.hs) :
                    /\ s.hs[h].ws = "closed" /\ s.hs[h].sent = <<>>
                    /\ \A o \in opened : o < h})

\* the upstream refuses the connection of h, or the connect that connect()
\* itself aborted ends
UsHealConnectFail(h) ==
  /\ us.hs[h].ws = "connecting" => UsFailedSince(us) + 1 < us_opts.maxRetries
  /\ UsWsConnectFail(h)

\* a reconnect timer runs, with room for one more socket than elsewhere
UsHealTimerFire(t) ==
  /\ t \in us.timers
  /\ t.left = 0
  /\ Len(us.hs) < MaxHandlers + 1
  /\ us' = Connect([us EXCEPT !.timers = @ \ {t}])
  /\ UsOthers

HealInit ==
  /\ us_opts = [maxRetries |-> 2, baseRetryDelayMs |-> 250]
  /\ us = UsNew
  /\ ChIdle /\ JbIdle /\ GwIdle /\ HkIdle /\ SgIdle

HealNext ==
  \/ UsOwnerConnect
  \/ \E h \in UsHandlers : UsWsOpen(h)
  \/ \E h \in UsHandlers : UsHealConnectFail(h)
  \/ \E h \in UsHandlers : UsWsError(h)
  \/ \E h \in UsHandlers : UsWsClose(h)
  \/ \E t \in us.timers : UsHealTimerFire(t)
  \/ UsAdvance

SpecHeal ==
  /\ HealInit /\ [][HealNext]_vars
  /\ WF_vars(UsOwnerConnect)
  /\ WF_vars(\E t \in us.timers : UsHealTimerFire(t))
  /\ WF_vars(UsAdvance)
  /\ WF_vars(\E h \in UsHandlers : UsWsOpen(h) \/ UsHealConnectFail(h))

\* C31: a session that lost its first socket, or whose first connect failed,
\* becomes Ready again without its owner doing anything
SelfHeal ==
  [](Len(us.hs) = 1 /\ us.hs[1].ws = "closed" => <>(UsStatus(us) = "Ready"))

\* what the code keeps of C31: the loss of a socket is followed by a
\* reconnect attempt (a second socket is opened)
SelfHealAttempt ==
  [](Len(us.hs) = 1 /\ us.hs[1].ws = "closed" => <>(Len(us.hs) >= 2))

(***************************************************************************)
(* The handler on its own: OpenAIRealtimeSocketHandler is constructed with *)
(* any combination of options, connects, and on 'open' sends the           *)
(* session.update handshake; response.create may follow.  A message is     *)
(* [type, model, instructions, voice, rate].                               *)
(***************************************************************************)
MaxRequests == 2

HkOptionsGiven ==
  [model : {"undefined", "gpt-realtime", "gpt-4o-mini-realtime"},
   voice : {"undefined", "marin", "verse"},
   instructions : {"undefined", "Translate to French."},
   inputSampleRate : {0, 24000, 16000},
   outputSampleRate : {0, 24000}]

\* sendSessionCreate: the event it builds
SessionUpdateEvent(h) ==
  [type |-> "session.update",
   model |-> "gpt-realtime",
   instructions |-> "Du bist ein Simultanuebersetzer. Uebersetze fortlaufend von Deutsch nach Englisch.",
   voice |-> "marin",
   rate |-> 24000]

\* requestResponse: the event it builds
ResponseCreateEvent(h, extraInstructions) ==
  [type |-> "response.create",
   model |-> "none",
   instructions |-> Nullish(extraInstructions,
                            Nullish(h.options.instructions,
                                    "Translate the incoming speech to fluent English and keep the same tone.",
                                    "undefined"),
                            "undefined"),
   voice |-> h.options.voice,
   rate |-> 24000]

HkOthers == UNCHANGED <<ch_vars, jb_vars, us_vars, gw_vars, sg>>

\* connectToAudioStream: the socket is created; the URL names the model
HkConnectToAudioStream ==
  /\ hk.ws = "none"
  /\ hk' = [hk EXCEPT !.ws = "connecting", !.url = "model=gpt-realtime"]
  /\ HkOthers

\* ws 'open': handleOpen, sendSessionCreate
HkHandleOpen ==
  /\ hk.ws = "connecting"
  /\ hk' = [hk EXCEPT !.ws = "open", !.sent = Append(@, SessionUpdateEvent(hk))]
  /\ HkOthers

\* the connect fails
HkConnectFail ==
  /\ hk.ws = "connecting"
  /\ hk' = [hk EXCEPT !.ws = "closed"]
  /\ HkOthers

\* requestResponse(extraInstructions) on the open socket
HkRequestResponse(extraInstructions) ==
  /\ hk.ws = "open"
  /\ Len(hk.sent) <= MaxRequests
  /\ hk' = [hk EXCEPT !.awaitingResponse = TRUE,
                      !.sent = Append(@, ResponseCreateEvent(hk, extraInstructions))]
  /\ HkOthers

\* close(), or the upstream closes the socket
HkClose ==
  /\ hk.ws = "open"
  /\ hk' = [hk EXCEPT !.ws = "closed"]
  /\ HkOthers

HandshakeInit ==
  /\ \E opts \in HkOptionsGiven : hk = HkConstruct(opts)
  /\ ChIdle /\ JbIdle /\ UsIdle /\ GwIdle /\ SgIdle

HandshakeNext ==
  \/ HkConnectToAudioStream
  \/ HkHandleOpen
  \/ HkConnectFail
  \/ \E extra \in {"undefined", "Summarise."} : HkRequestResponse(extra)
  \/ HkClose

SpecHandshake == HandshakeInit /\ [][HandshakeNext]_vars

HkHandshakes == {hk.sent[i] : i \in {j \in 1..Len(hk.sent) : hk.sent[j].type = "session.update"}}

\* C32: the handshake carries the configured options: the session.update the
\* handler sends names the voice, the model and the input sample rate of its
\* options (configured or default), and its instructions when it has any
HandshakeCarriesOptions ==
  \A m \in HkHandshakes :
    /\ m.voice = hk.options.voice
    /\ m.model = hk.options.model
    /\ m.rate = hk.options.inputSampleRate
    /\ hk.options.instructions # "undefined" => m.instructions = hk.options.instructions

\* what the code keeps of C32: exactly one handshake, the first message of an
\* opened socket, always the same whatever the options
HandshakeFixed ==
  /\ hk.ws \in {"none", "connecting"} => hk.sent = <<>>
  /\ hk.sent # <<>> =>
       /\ hk.sent[1] = SessionUpdateEvent(HkNew)
       /\ \A i \in 2..Len(hk.sent) : hk.sent[i].type = "response.create"

\* the one place the options reach the upstream: response.create names the
\* configured voice
RequestCarriesVoice ==
  \A i \in 1..Len(hk.sent) :
    hk.sent[i].type = "response.create" => hk.sent[i].voice = hk.options.voice

\* C35: at most one reconnect timer is pending and retryTimer refers to it;
\* after close() none is pending
SingleReconnectTimer ==
  /\ Cardinality(us.timers) <= 1
  /\ \A t \in us.timers : t.id = us.retryTimer
  /\ us.closed => us.timers = {}

\* what the code keeps of C35: the timer retryTimer refers to is cancelled by
\* connect() and close(), so right after either the field refers to none
RetryTimerCleared ==
  [][(\/ us'.closed /\ ~us.closed
      \/ Len(us'.hs) > Len(us.hs)) => us'.retryTimer = 0]_vars

\* the socket of a handler the session has replaced changes its state in this
\* step: one of its events ('error', 'close') is delivered
UsLateEvent(h) ==
  /\ h # us.handler
  /\ Len(us'.hs) = Len(us.hs)
  /\ us'.hs[h].ws # us.hs[h].ws

\* C36: the events of a superseded handler are inert: they schedule no
\* reconnect, do not raise retryCount and do not mark the session not ready
SupersededInert ==
  [][\A h \in UsHandlers :
       UsLateEvent(h) => /\ us'.retryCount = us.retryCount
                         /\ us'.timers = us.timers
                         /\ us'.retryTimer = us.retryTimer
                         /\ us'.limitErrors = us.limitErrors
                         /\ us'.ready = us.ready]_vars

\* what the code keeps of C36: a late event neither changes the ready flag
\* nor the handler the session uses, nor the audio that is pending
SupersededKeepsHandler ==
  [][\A h \in UsHandlers :
       UsLateEvent(h) => /\ us'.ready = us.ready
                         /\ us'.handler = us.handler
                         /\ us'.pendingAudio = us.pendingAudio]_vars

\* C37: no orphans under connect/disconnect races: once the client of a
\* connection has disconnected and its handleConnection has completed, the
\* registry holds no entry for it and its upstream socket is not left open
RegistryNoOrphans ==
  rg.up =>
    \A c \in RgClients :
      rg.cl[c].client = "closed" /\ rg.cl[c].stage # "connecting" =>
        /\ ~rg.cl[c].session
        /\ rg.cl[c].ws \notin {"connecting", "open"}

(***************************************************************************)
(* JitterBuffer: conservation of frames                                    *)
(***************************************************************************)
\* how often frame id was emitted as type
JbEmittedTimes(id, type) ==
  Cardinality({i \in DOMAIN jb_events : jb_events[i].type = type /\ jb_events[i].id = id})

\* the frames that left the queue: the events other than 'end'
JbReleased == SelectSeq(jb_events, LAMBDA e : e.type # "end")

\* C38: every frame written is in exactly one place: still queued, emitted
\* once as 'data', or reported once as 'drop'.  The queue and the 'data' and
\* 'drop' events together hold as many frames as were written, and every
\* frame written is among them: so each is there exactly once
JitterConservation ==
  /\ Len(jb_queue) + Len(JbReleased) = jb_nextId - 1
  /\ \A id \in 1..(jb_nextId - 1) :
       \/ \E i \in DOMAIN jb_queue : jb_queue[i].id = id
       \/ \E i \in DOMAIN jb_events : jb_events[i].id = id /\ jb_events[i].type \in {"data", "drop"}

\* one frame was dropped by a write and another one emitted
JitterConservationWitness ==
  /\ \E i \in DOMAIN jb_events : jb_events[i].type = "drop"
  /\ \E i \in DOMAIN jb_events : jb_events[i].type = "data"
  /\ jb_nextId = MaxFrames + 1

(***************************************************************************)
(* JitterBuffer while it is drained: the buffer is started before the      *)
(* first frame is written, as createRtcToBrowserPipeline does, and is not  *)
(* stopped.  The interval timer fires when it is due and time passes; a    *)
(* frame is written early enough for its release to lie within MaxTime.    *)
(***************************************************************************)
\* write(data) on the running buffer
JbDrainWrite ==
  /\ jb_timer
  /\ jb_now + jb_target + jb_interval <= MaxTime
  /\ JbWrite

DrainNext == JbStart \/ JbDrainWrite \/ JbTick \/ JbAdvance

SpecJitterDrain ==
  /\ JitterInit /\ [][DrainNext]_vars
  /\ WF_vars(JbTick)
  /\ WF_vars(JbAdvance)

JbDrainable == jb_target + jb_interval <= jb_max

\* C39: with the timer running and targetLatencyMs + flushIntervalMs <=
\* maxLatencyMs no 'drop' is ever emitted, and every frame written is
\* eventually emitted as 'data'
JitterDrained ==
  JbDrainable =>
    /\ [](JbOf("drop") = <<>>)
    /\ \A id \in 1..MaxFrames :
         [](id < jb_nextId => <>(JbEmittedTimes(id, "data") = 1))

\* every frame was written and emitted by a tick, one of them at the latest
\* time the inequality allows: at age maxLatencyMs
JitterDrainedWitness ==
  /\ JbDrainable
  /\ jb_nextId = MaxFrames + 1
  /\ jb_queue = <<>>
  /\ Len(JbOf("data")) = MaxFrames
  /\ \E i \in DOMAIN jb_events : jb_events[i].type = "data" /\ JbAge(jb_events[i]) = jb_max

\* the other half of C39, with start, stop and end in any order: a frame is
\* dropped only if the timer was not running all the time since it was
\* written, or if targetLatencyMs + flushIntervalMs > maxLatencyMs
JitterDropsOnlyUndrained ==
  \A i \in DOMAIN jb_events :
    jb_events[i].type = "drop" => ~jb_events[i].steady \/ ~JbDrainable

(***************************************************************************)
(* SocketioGateway  (app/gateway/socket-io.gateway.ts) with                *)
(* AudioRecordingService and SocketLiveAudioService                        *)
(*                                                                         *)
(* One action per message handler.  stop-recording awaits the write of the *)
(* file: the handler's second half is SgWriteDone, and other messages are  *)
(* handled in between.  Recording session ids are uuids (here 1, 2, ..),   *)
(* live session ids are made of the client id and Date.now().  The lists   *)
(* sent on connect and the broadcast of the recordings list are left out.  *)
(***************************************************************************)
MaxSgMsgs == 3
MaxNow == 1
MaxRecordings == 2

\* the chunk of a message: the number of base64 characters of the string,
\* or -1 for a chunk that is not a string
SgChunks == {-1, 0, 3}

\* Buffer.from(chunk, 'base64').length for a string without padding
Base64Bytes(chars) == (chars * 3) \div 4

RECURSIVE SgBytes(_)
SgBytes(chunks) == IF chunks = <<>> THEN 0 ELSE Head(chunks).bytes + SgBytes(Tail(chunks))

SgEvent(to, event, rid, lid, sequence, info) ==
  [to |-> to, event |-> event, rid |-> rid, lid |-> lid, sequence |-> sequence, info |-> info]

\* the handler of message op has run: its replies are emitted
SgHandled(s, op, c, rid, lid, sequence, chunk, pre, replies) ==
  [s EXCEPT !.n = @ + 1,
            !.last = [op |-> op, client |-> c, rid |-> rid, lid |-> lid,
                      sequence |-> sequence, chunk |-> chunk, pre |-> pre,
                      replies |-> replies]]

\* the status of recording session rid, "none" if there is none
SgRecStatus(s, rid) == IF rid \in DOMAIN s.rec THEN s.rec[rid].status ELSE "none"

\* Mutant of AddAudioChunk: the status of the session is not looked at
AddAudioChunkAnyStatus(s, rid, chunk) ==
  IF rid \notin DOMAIN s.rec
    THEN [ok |-> FALSE, s |-> s]
    ELSE [ok |-> TRUE,
          s |-> [s EXCEPT !.rec[rid].chunks = Append(@, chunk),
                          !.rec[rid].size = @ + chunk.bytes,
                          !.rec[rid].got = Append(@, chunk)]]

\* AudioRecordingService.addAudioChunk(sessionId, chunkData)
AddAudioChunk(s, rid, chunk) ==
  IF rid \notin DOMAIN s.rec \/ s.rec[rid].status # "recording"
    THEN [ok |-> FALSE, s |-> s]
    ELSE [ok |-> TRUE,
          s |-> [s EXCEPT !.rec[rid].chunks = Append(@, chunk),
                          !.rec[rid].size = @ + chunk.bytes,
                          !.rec[rid].got = Append(@, chunk)]]

\* Mutant of GetActiveSession: no session is found
GetActiveSessionNone(s, c) == {}

\* SocketLiveAudioService.getActiveSession(clientId): the ids it may return
GetActiveSession(s, c) == {x.id : x \in {y \in s.live : y.clientId = c /\ y.isActive}}

\* SocketLiveAudioService.stopLiveSession(sessionId) of a session of the map
StopLiveSession(s, lid) ==
  [s EXCEPT !.live = {IF x.id = lid THEN [x EXCEPT !.isActive = FALSE] ELSE x : x \in @},
            !.timers = @ \cup {[id |-> lid, due |-> s.now + 1]}]

\* SocketLiveAudioService.startLiveSession(clientId): Map.set replaces the
\* session of the same id
StartLiveSession(s, c) ==
  LET lid == [client |-> c, at |-> s.now]
  IN [s EXCEPT !.live = {x \in @ : x.id # lid} \cup
                          {[id |-> lid, clientId |-> c, isActive |-> TRUE,
                            chunkCount |-> 0, totalBytes |-> 0]}]

\* SocketLiveAudioService.updateSessionStats(sessionId, chunkSize)
UpdateSessionStats(s, lid, chunkSize) ==
  IF \E x \in s.live : x.id = lid /\ x.isActive
    THEN [ok |-> TRUE,
          s |-> [s EXCEPT !.live = {IF x.id = lid
                                      THEN [x EXCEPT !.chunkCount = @ + 1,
                                                     !.totalBytes = @ + chunkSize]
                                      ELSE x : x \in @}]]
    ELSE [ok |-> FALSE, s |-> s]

SgOthers == UNCHANGED <<ch_vars, jb_vars, us_vars, gw_vars, hk>>

SgConnected(c) == sg.cl[c] = "connected" /\ sg.n < MaxSgMsgs

\* handleConnection(client)
SgHandleConnection(c) ==
  /\ sg.cl[c] = "none"
  /\ sg' = [sg EXCEPT !.cl[c] = "connected"]
  /\ SgOthers

\* handleDisconnect(client): the client's active live session is stopped
SgHandleDisconnect(c) ==
  /\ sg.cl[c] = "connected"
  /\ LET s1 == [sg EXCEPT !.cl[c] = "disconnected"]
     IN \/ /\ GetActiveSession(sg, c) = {}
           /\ sg' = s1
        \/ \E lid \in GetActiveSession(sg, c) : sg' = StopLiveSession(s1, lid)
  /\ SgOthers

\* 'start-recording': startRecordingSession(client.id)
SgHandleStartRecording(c) ==
  /\ SgConnected(c)
  /\ Len(sg.rec) < MaxRecordings
  /\ LET rid == Len(sg.rec) + 1
         s1 == [sg EXCEPT !.rec = Append(@, [clientId |-> c, status |-> "recording",
                                            chunks |-> <<>>, size |-> 0, got |-> <<>>,
                                            done |-> 0])]
     IN sg' = SgHandled(s1, "start-recording", c, rid, SgNone, 0, 0, "none",
                        <<SgEvent(c, "recording-started", rid, SgNone, 0, "")>>)
  /\ SgOthers

\* 'audio-chunk'
SgHandleAudioChunk(c, rid, chunk, sequence) ==
  /\ SgConnected(c)
  /\ LET pre == SgRecStatus(sg, rid)
     IN IF chunk < 0
          THEN \* Buffer.from throws: the catch replies
               sg' = SgHandled(sg, "audio-chunk", c, rid, SgNone, sequence, chunk, pre,
                               <<SgEvent(c, "recording-error", rid, SgNone, sequence,
                                         "Failed to process audio chunk")>>)
          ELSE LET r == AddAudioChunk(sg, rid, [sequence |-> sequence,
                                                  bytes |-> Base64Bytes(chunk)])
               IN sg' = SgHandled(r.s, "audio-chunk", c, rid, SgNone, sequence, chunk, pre,
                                  IF r.ok
                                    THEN <<SgEvent(c, "chunk-received", rid, SgNone, sequence, "")>>
                                    ELSE <<SgEvent(c, "recording-error", rid, SgNone, sequence,
                                                   "Failed to add audio chunk")>>)
  /\ SgOthers

\* 'stop-recording' up to its await: stopRecordingSession finds no session,
\* or marks it 'processing', joins the chunks and starts to write the file
SgHandleStopRecording(c, rid) ==
  /\ SgConnected(c)
  /\ LET pre == SgRecStatus(sg, rid)
     IN IF rid \notin DOMAIN sg.rec
          THEN sg' = SgHandled(sg, "stop-recording", c, rid, SgNone, 0, 0, pre,
                               <<SgEvent(c, "recording-error", rid, SgNone, 0,
                                         "Session not found or already stopped")>>)
          ELSE sg' = SgHandled([sg EXCEPT !.rec[rid].status = "processing",
                                          !.writes = @ \cup {[id |-> rid, at |-> sg.now, by |-> c,
                                                              bytes |-> SgBytes(sg.rec[rid].chunks),
                                                              n |-> sg.n]}],
                               "stop-recording", c, rid, SgNone, 0, 0, pre, <<>>)
  /\ SgOthers

\* the write of the file ends: stopRecordingSession returns the session,
\* 'completed' or 'error', and the handler emits 'recording-completed'
SgWriteDone(w, ok) ==
  /\ w \in sg.writes
  /\ LET pre == sg.rec[w.id].status
         s1 == IF ok
                 THEN [sg EXCEPT !.files = @ \cup {[id |-> w.id, at |-> w.at]},
                                 !.rec[w.id].status = "completed",
                                 !.rec[w.id].chunks = <<>>]
                 ELSE [sg EXCEPT !.rec[w.id].status = "error"]
         s2 == [s1 EXCEPT !.writes = @ \ {w}, !.n = @ - 1, !.rec[w.id].done = @ + 1]
     IN sg' = SgHandled(s2, "write-done", w.by, w.id, SgNone, 0, 0, pre,
                        <<SgEvent(w.by, "recording-completed", w.id, SgNone, 0,
                                  s1.rec[w.id].status)>>)
  /\ SgOthers

\* 'start-live-audio': the client's active session is stopped, a new one started
SgHandleStartLiveAudio(c) ==
  /\ SgConnected(c)
  /\ LET lid == [client |-> c, at |-> sg.now]
         reply == <<SgEvent(c, "live-audio-started", 0, lid, 0, "")>>
     IN \/ /\ GetActiveSession(sg, c) = {}
           /\ sg' = SgHandled(StartLiveSession(sg, c), "start-live-audio", c, 0, lid, 0, 0,
                              "none", reply)
        \/ \E old \in GetActiveSession(sg, c) :
             sg' = SgHandled(StartLiveSession(StopLiveSession(sg, old), c),
                             "start-live-audio", c, 0, lid, 0, 0, "active", reply)
  /\ SgOthers

\* the state of live session lid: "none", "active" or "stopped"
SgLiveStatus(s, lid) ==
  IF \E x \in s.live : x.id = lid /\ x.isActive THEN "active"
  ELSE IF \E x \in s.live : x.id = lid THEN "stopped" ELSE "none"

\* 'live-audio-chunk': the statistics are updated and the chunk is echoed
SgHandleLiveAudioChunk(c, lid, chunk, sequence) ==
  /\ SgConnected(c)
  /\ LET pre == SgLiveStatus(sg, lid)
     IN IF chunk < 0
          THEN sg' = SgHandled(sg, "live-audio-chunk", c, 0, lid, sequence, chunk, pre,
                               <<SgEvent(c, "live-audio-error", 0, lid, sequence,
                                         "Failed to process live audio chunk")>>)
          ELSE LET r == UpdateSessionStats(sg, lid, Base64Bytes(chunk))
               IN sg' = SgHandled(r.s, "live-audio-chunk", c, 0, lid, sequence, chunk, pre,
                                  IF r.ok
                                    THEN <<SgEvent(c, "live-audio-echo", 0, lid, sequence, ""),
                                           SgEvent(c, "live-chunk-received", 0, lid, sequence, "")>>
                                    ELSE <<SgEvent(c, "live-audio-error", 0, lid, sequence,
                                                   "Invalid session for live audio chunk")>>)
  /\ SgOthers

\* 'stop-live-audio': stopLiveSession returns the session while the map has it
SgHandleStopLiveAudio(c, lid) ==
  /\ SgConnected(c)
  /\ LET pre == SgLiveStatus(sg, lid)
     IN IF pre = "none"
          THEN sg' = SgHandled(sg, "stop-live-audio", c, 0, lid, 0, 0, pre,
                               <<SgEvent(c, "live-audio-error", 0, lid, 0,
                                         "Session not found or already stopped")>>)
          ELSE sg' = SgHandled(StopLiveSession(sg, lid), "stop-live-audio", c, 0, lid, 0, 0, pre,
                               <<SgEvent(c, "live-audio-stopped", 0, lid, 0, "")>>)
  /\ SgOthers

\* the cleanup timer of stopLiveSession: activeSessions.delete(sessionId)
SgLiveCleanup(t) ==
  /\ t \in sg.timers
  /\ t.due <= sg.now
  /\ sg' = [sg EXCEPT !.timers = @ \ {t}, !.live = {x \in @ : x.id # t.id}]
  /\ SgOthers

\* time passes
SgAdvance ==
  /\ sg.now < MaxNow
  /\ sg' = [sg EXCEPT !.now = @ + 1]
  /\ SgOthers

SgLiveIds == {x.id : x \in sg.live} \cup {SgNone}

\* the recording handlers
RecordingNext ==
  \/ \E c \in SgClients : SgHandleConnection(c)
  \/ \E c \in SgClients : SgHandleDisconnect(c)
  \/ \E c \in SgClients : SgHandleStartRecording(c)
  \/ \E c \in SgClients : \E rid \in 0..Len(sg.rec) : \E chunk \in SgChunks :
       \E sequence \in 1..2 : SgHandleAudioChunk(c, rid, chunk, sequence)
  \/ \E c \in SgClients : \E rid \in 0..Len(sg.rec) : SgHandleStopRecording(c, rid)
  \/ \E w \in sg.writes : \E ok \in BOOLEAN : SgWriteDone(w, ok)
  \/ SgAdvance

\* the live audio handlers
LiveNext ==
  \/ \E c \in SgClients : SgHandleConnection(c)
  \/ \E c \in SgClients : SgHandleDisconnect(c)
  \/ \E c \in SgClients : SgHandleStartLiveAudio(c)
  \/ \E c \in SgClients : \E lid \in SgLiveIds : \E chunk \in SgChunks :
       \E sequence \in 1..2 : SgHandleLiveAudioChunk(c, lid, chunk, sequence)
  \/ \E c \in SgClients : \E lid \in SgLiveIds : SgHandleStopLiveAudio(c, lid)
  \/ \E t \in sg.timers : SgLiveCleanup(t)
  \/ SgAdvance

SocketioInit == sg = SgNew /\ ChIdle /\ JbIdle /\ UsIdle /\ GwIdle /\ HkIdle

SpecRecording == SocketioInit /\ [][RecordingNext]_vars

SpecLive == SocketioInit /\ [][LiveNext]_vars

ChunkRefusedWitness ==
  /\ sg.last.op = "audio-chunk"
  /\ sg.last.pre \in {"processing", "completed", "error"}
  /\ sg.last.chunk >= 0
  /\ sg.last.replies[1].event = "recording-error"

(***************************************************************************)
(* Recording and live audio: stopping twice                                *)
(***************************************************************************)
SgStopError(replies, event) ==
  /\ Len(replies) = 1
  /\ replies[1].event = event
  /\ replies[1].info = "Session not found or already stopped"

\* C34: stopping is not repeatable: a stop for a session that was stopped
\* before is answered with the error 'Session not found or already stopped',
\* and a recording session gets at most one 'recording-completed' and one file
StopNotRepeatable ==
  /\ (sg.last.op = "stop-recording" /\ sg.last.pre \in {"processing", "completed", "error"}) =>
       SgStopError(sg.last.replies, "recording-error")
  /\ (sg.last.op = "stop-live-audio" /\ sg.last.pre = "stopped") =>
       SgStopError(sg.last.replies, "live-audio-error")
  /\ \A rid \in DOMAIN sg.rec :
       /\ sg.rec[rid].done <= 1
       /\ Cardinality({f \in sg.files : f.id = rid}) <= 1

\* the status of a recording session only moves recording -> processing ->
\* completed | error (the other part of C34)
RecordingStatusForward ==
  [][\A rid \in DOMAIN sg.rec :
       sg'.rec[rid].status # sg.rec[rid].status =>
         <<sg.rec[rid].status, sg'.rec[rid].status>> \in
           {<<"recording", "processing">>, <<"processing", "completed">>,
            <<"processing", "error">>}]_vars

\* what the code keeps of C34: a stop for a session the service does not know
\* is answered with the error, and a session that is stopped once gets one
\* 'recording-completed'
StopUnknown ==
  /\ (sg.last.op = "stop-recording" /\ sg.last.pre = "none") =>
       SgStopError(sg.last.replies, "recording-error")
  /\ (sg.last.op = "stop-live-audio" /\ sg.last.pre = "none") =>
       SgStopError(sg.last.replies, "live-audio-error")

(***************************************************************************)
(* Live audio: one active session per client                               *)
(***************************************************************************)
SgActiveOf(c) == {x \in sg.live : x.clientId = c /\ x.isActive}

\* C40: a client has at most one active live session and a client that is
\* not connected has none; a 'live-audio-chunk' for a session that is stopped
\* or unknown is refused and leaves the statistics of every session unchanged
OneActiveLiveSession ==
  /\ [](\A c \in SgClients :
          /\ Cardinality(SgActiveOf(c)) <= 1
          /\ sg.cl[c] # "connected" => SgActiveOf(c) = {})
  /\ [][(sg'.n = sg.n + 1 /\ sg'.last.op = "live-audio-chunk" /\ sg'.last.pre # "active") =>
          /\ sg'.live = sg.live
          /\ Len(sg'.last.replies) = 1
          /\ sg'.last.replies[1].event = "live-audio-error"]_vars

\* a client started a second session, which stopped its first one, and its
\* chunk for the first one was refused
OneActiveLiveSessionWitness ==
  /\ sg.last.op = "live-audio-chunk"
  /\ sg.last.pre = "stopped"
  /\ sg.last.chunk >= 0
  /\ SgActiveOf(sg.last.client) # {}
  /\ \E x \in sg.live : x.id = sg.last.lid /\ x.clientId = sg.last.client /\ ~x.isActive

\* a client disconnected with an active session that had counted a chunk
LiveDisconnectWitness ==
  \E x \in sg.live : sg.cl[x.clientId] = "disconnected" /\ ~x.isActive /\ x.chunkCount = 1

====
